---- MODULE Spec2Model ----
(***************************************************************************)
(* Meta-engine of server-p: the orchestrator registry                      *)
(* (app/meta_engine/orchestrator.py), the dynamic model factory            *)
(* (model_factory.py) and the route factory (route_factory.py).            *)
(*                                                                         *)
(* Python values are modelled as follows.  A dict is a function whose      *)
(* DOMAIN is its key set.  A str that the code takes apart (a schema name) *)
(* is a sequence of one-character strings; any other str is a string.  A   *)
(* call that may raise returns a record with a field "raised".             *)
(***************************************************************************)
EXTENDS Integers, Sequences, FiniteSets, TLC

VARIABLES
    engine,     \* the MetaEngineOrchestrator instance (orchestrator.py:247)
    last,       \* the last call made on the orchestrator and how it ended
    rf,         \* a RouteFactory under construction: auth_config, routes so far
    app,        \* a schema's router, the last request sent to it, its answer
    store,      \* the records of one schema's table
    resp,       \* the answer of the last request to the list route
    db,         \* db_manager and the changes committed to the database
    sessions,   \* the session of each request served through get_db_session
    settings,   \* the application settings (core/config.py)
    reply,      \* the answer of the last request to a generated route
    built,      \* the schema defined last: its arguments and what raised
    inventory,  \* the stock of the demo products and the last answer of
                \* the inventory route
    checked,    \* the value written last to a choice field, and whether the
                \* field's validator refused it
    listing,    \* the list request being served: what its awaits returned
    limiter     \* the RateLimitMiddleware, the clock and the requests answered

regVars == <<engine, last>>

authVars == <<rf>>

routeVars == <<app>>

listVars == <<store, resp>>

sessionVars == <<db, sessions>>

\* the state outside the orchestrator, the route factory and the list route
crudVars == <<settings, reply>>

buildVars == <<built>>

inventoryVars == <<inventory>>

choiceVars == <<checked>>

pageVars == <<listing>>

rateVars == <<limiter>>

\* the state of the demo routes, the middleware and the model factory
moreVars == <<inventoryVars, choiceVars, pageVars, rateVars>>

extVars == <<sessionVars, crudVars, buildVars, moreVars>>

vars ==
    <<engine, last, rf, app, store, resp, db, sessions, settings, reply, built,
      inventory, checked, listing, limiter>>

----------------------------------------------------------------------------
(* Python dict and str primitives *)

EmptyDict == [k \in {} |-> TRUE]

Put(d, k, v) == [x \in (DOMAIN d) \cup {k} |-> IF x = k THEN v ELSE d[x]]

Del(d, k) == [x \in (DOMAIN d) \ {k} |-> d[x]]

Range(s) == {s[i] : i \in DOMAIN s}

\* the cased characters the schema names of the model are written with
UpperChars == <<"T", "A", "S", "K", "I", "E", "M", "U", "R">>

LowerChars == <<"t", "a", "s", "k", "i", "e", "m", "u", "r">>

IsCased(c) == c \in Range(UpperChars) \cup Range(LowerChars)

ToUpper(c) ==
    IF c \in Range(LowerChars)
    THEN UpperChars[CHOOSE i \in DOMAIN LowerChars : LowerChars[i] = c]
    ELSE c

ToLower(c) ==
    IF c \in Range(UpperChars)
    THEN LowerChars[CHOOSE i \in DOMAIN UpperChars : UpperChars[i] = c]
    ELSE c

\* str.title(): a character that follows a cased character is lowercased,
\* every other character is uppercased
Title(s) ==
    [i \in 1..Len(s) |->
        IF i > 1 /\ IsCased(s[i - 1]) THEN ToLower(s[i]) ELSE ToUpper(s[i])]

\* str.lower()
Lower(s) == [i \in 1..Len(s) |-> ToLower(s[i])]

\* the characters of the related_schema values, which the model factory
\* takes apart
Chars(s) ==
    CASE s = "Task"     -> <<"T", "a", "s", "k">>
      [] s = "Tasks"    -> <<"T", "a", "s", "k", "s">>
      [] s = "TaskItem" -> <<"T", "a", "s", "k", "I", "t", "e", "m">>
      [] s = "User"     -> <<"U", "s", "e", "r">>
      [] OTHER          -> <<>>

----------------------------------------------------------------------------
(* schema_definition.py *)

\* the six generated operations, in the order _create_crud_routes adds them
RouteNames == <<"create", "list", "get", "update", "delete", "count">>

Ops == Range(RouteNames)

\* a value under a list key of auth_config: the key is absent, or holds
\* None, or holds a list of route names (only membership is ever asked)
Absent == [kind |-> "absent", items |-> {}]

NoneValue == [kind |-> "none", items |-> {}]

ListOf(S) == [kind |-> "list", items |-> S]

\* SchemaDefinition.auth_config's default_factory
DefaultAuthConfig ==
    [ require_auth     |-> "True",
      public_routes    |-> ListOf({}),
      protected_routes |-> ListOf({}),
      read_public      |-> "False",
      write_protected  |-> "True" ]

\* SchemaDefinition.model_name
model_name(schema) == <<"D", "y", "n", "a", "m", "i", "c">> \o Title(schema.name)

----------------------------------------------------------------------------
(* route_factory.py: the authentication dependency of a generated route *)

ReadOps == {"list", "get", "count"}

WriteOps == {"create", "update", "delete"}

\* auth_config.get(key, default) of a flag, taken as a condition
Flag(v, default) == IF v = "absent" THEN default ELSE v = "True"

\* `route_name in auth_config.get(key, [])`: membership in None is a TypeError
InRoutes(v, route_name) ==
    IF v.kind = "none" THEN "TypeError"
    ELSE IF route_name \in v.items THEN "True" ELSE "False"

\* RouteFactory._get_auth_dependency, as a mutation would have it: the
\* protected_routes test moved in front of the public_routes test
get_auth_dependency_protected_first(auth_config, route_name) ==
    LET pub  == InRoutes(auth_config.public_routes, route_name)
        prot == InRoutes(auth_config.protected_routes, route_name)
    IN  IF prot = "TypeError" THEN "TypeError"
        ELSE IF prot = "True" THEN "get_current_user"
        ELSE IF pub = "TypeError" THEN "TypeError"
        ELSE IF pub = "True" THEN "get_optional_user"
        ELSE IF Flag(auth_config.read_public, FALSE) /\ route_name \in ReadOps
             THEN "get_optional_user"
        ELSE IF Flag(auth_config.write_protected, TRUE) /\ route_name \in WriteOps
             THEN "get_current_user"
        ELSE IF Flag(auth_config.require_auth, TRUE)
             THEN "get_current_user"
        ELSE "get_optional_user"

\* RouteFactory._get_auth_dependency, as a mutation would have it: the
\* protected_routes test left out
get_auth_dependency_no_protected(auth_config, route_name) ==
    LET pub == InRoutes(auth_config.public_routes, route_name)
    IN  IF pub = "TypeError" THEN "TypeError"
        ELSE IF pub = "True" THEN "get_optional_user"
        ELSE IF Flag(auth_config.read_public, FALSE) /\ route_name \in ReadOps
             THEN "get_optional_user"
        ELSE IF Flag(auth_config.write_protected, TRUE) /\ route_name \in WriteOps
             THEN "get_current_user"
        ELSE IF Flag(auth_config.require_auth, TRUE)
             THEN "get_current_user"
        ELSE "get_optional_user"

\* RouteFactory._get_auth_dependency: the dependency injected as current_user,
\* get_optional_user (anonymous access) or get_current_user (authentication)
_get_auth_dependency(auth_config, route_name) ==
    LET pub == InRoutes(auth_config.public_routes, route_name)
    IN  IF pub = "TypeError" THEN "TypeError"
        ELSE IF pub = "True" THEN "get_optional_user"
        ELSE LET prot == InRoutes(auth_config.protected_routes, route_name)
             IN  IF prot = "TypeError" THEN "TypeError"
                 ELSE IF prot = "True" THEN "get_current_user"
                 ELSE IF Flag(auth_config.read_public, FALSE)
                         /\ route_name \in ReadOps
                      THEN "get_optional_user"
                 ELSE IF Flag(auth_config.write_protected, TRUE)
                         /\ route_name \in WriteOps
                      THEN "get_current_user"
                 ELSE IF Flag(auth_config.require_auth, TRUE)
                      THEN "get_current_user"
                 ELSE "get_optional_user"

----------------------------------------------------------------------------
(* route_factory.py: the router of a schema *)

\* a path template is the sequence of its segments: "/" is <<>>,
\* "/{record_id}" is <<Param("record_id")>>, "/count" is <<Lit("count")>>
Lit(text) == [param |-> FALSE, text |-> text]

Param(name) == [param |-> TRUE, text |-> name]

\* the method and path of _add_create_route .. _add_count_route
CrudMethod(route_name) ==
    CASE route_name = "create" -> "POST"
      [] route_name = "list"   -> "GET"
      [] route_name = "get"    -> "GET"
      [] route_name = "update" -> "PUT"
      [] route_name = "delete" -> "DELETE"
      [] route_name = "count"  -> "GET"

CrudPath(route_name) ==
    CASE route_name = "create" -> <<>>
      [] route_name = "list"   -> <<>>
      [] route_name = "get"    -> <<Param("record_id")>>
      [] route_name = "update" -> <<Param("record_id")>>
      [] route_name = "delete" -> <<Param("record_id")>>
      [] route_name = "count"  -> <<Lit("count")>>

\* one @self.router.<method>(path) registration of a generated operation
CrudRoute(schema, route_name) ==
    [ method   |-> CrudMethod(route_name),
      path     |-> CrudPath(route_name),
      endpoint |-> route_name,
      auth     |-> _get_auth_dependency(schema.auth_config, route_name) ]

\* RouteFactory._create_crud_routes: the six routes, appended in this order
_create_crud_routes(schema) ==
    [i \in 1..Len(RouteNames) |-> CrudRoute(schema, RouteNames[i])]

\* RouteFactory.__init__: raises when a route's dependency cannot be computed
RouteFactory(schema, crud_service) ==
    LET routes == _create_crud_routes(schema)
    IN  IF \E i \in DOMAIN routes : routes[i].auth = "TypeError"
        THEN [raised |-> TRUE]
        ELSE [raised  |-> FALSE,
              factory |-> [ schema        |-> schema,
                            crud_service  |-> crud_service,
                            router        |-> routes,
                            custom_routes |-> EmptyDict ]]

\* RouteFactory.add_custom_route: the route is appended to the router and the
\* handler stored under the key "<method> <path>"
add_custom_route(factory, path, method, handler) ==
    [factory EXCEPT
        !.router = Append(@, [ method   |-> method,
                               path     |-> path,
                               endpoint |-> handler,
                               auth     |-> "none" ]),
        !.custom_routes = Put(@, <<method, path>>, handler)]

\* RouteFactory.get_custom_routes
get_custom_routes(factory) == factory.custom_routes

----------------------------------------------------------------------------
(* model_factory.py *)

\* DynamicModelFactory._create_custom_validator: re.compile(rule.value)
\* raises for a pattern that is no regular expression
CompileFails(field) ==
    \E i \in DOMAIN field.validation_rules :
        /\ field.validation_rules[i].rule_type = "regex"
        /\ ~field.validation_rules[i].compiles

\* DynamicModelFactory._create_relationships: field.related_schema.lower()
\* and .title() raise AttributeError on None; a many-to-many field reads
\* neither
RelationshipFails(field) ==
    /\ field.relationship_type \in {"many_to_one", "one_to_one", "one_to_many"}
    /\ field.related_schema = "None"

IsUpper(c) == c \in Range(UpperChars)

IsLower(c) == c \in Range(LowerChars)

IsDigit(c) == c \in {"0", "1", "2", "3", "4", "5", "6", "7", "8", "9"}

\* the last character of the run of lowercase letters that starts at j
RunEnd(s, j) ==
    CHOOSE k \in j..Len(s) :
        /\ \A m \in j..k : IsLower(s[m])
        /\ k = Len(s) \/ ~IsLower(s[k + 1])

\* re.sub('(.)([A-Z][a-z]+)', r'\1_\2', s): the matches are taken from left
\* to right and do not overlap; rest[i] is the result from position i on
camel_sub1(s) ==
    LET rest[i \in 1..(Len(s) + 1)] ==
            IF i > Len(s) THEN <<>>
            ELSE IF i + 2 <= Len(s) /\ IsUpper(s[i + 1]) /\ IsLower(s[i + 2])
            THEN <<s[i], "_">> \o SubSeq(s, i + 1, RunEnd(s, i + 2))
                     \o rest[RunEnd(s, i + 2) + 1]
            ELSE <<s[i]>> \o rest[i + 1]
    IN  rest[1]

\* re.sub('([a-z0-9])([A-Z])', r'\1_\2', s)
camel_sub2(s) ==
    LET rest[i \in 1..(Len(s) + 1)] ==
            IF i > Len(s) THEN <<>>
            ELSE IF i + 1 <= Len(s) /\ (IsLower(s[i]) \/ IsDigit(s[i]))
                                    /\ IsUpper(s[i + 1])
            THEN <<s[i], "_", s[i + 1]>> \o rest[i + 2]
            ELSE <<s[i]>> \o rest[i + 1]
    IN  rest[1]

\* DynamicModelFactory._camel_to_snake
_camel_to_snake(name) ==
    CHOOSE snake \in {Lower(camel_sub2(s1)) : s1 \in {camel_sub1(name)}} : TRUE

\* attrs['__tablename__'] of _build_class_attributes
__tablename__(schema) ==
    IF schema.table_name # <<>> THEN schema.table_name
    ELSE LET table_name == _camel_to_snake(schema.name)
         IN  IF table_name # <<>> /\ table_name[Len(table_name)] = "s"
             THEN table_name
             ELSE table_name \o <<"s">>

\* DynamicModelFactory._create_column: a column for every field that is no
\* relationship
IsColumn(field) == field.relationship_type \in {"None", ""}

\* the fields with a foreign-key column
HasForeignKey(field) == field.relationship_type \in {"many_to_one", "one_to_one"}

\* fk_column_name = field.foreign_key or f"{field.name}_id", as the pieces
\* the text is made of
fk_column_name(field) ==
    IF field.foreign_key \notin {"None", ""}
    THEN <<field.foreign_key>>
    ELSE <<field.name, "_id">>

\* DynamicModelFactory._create_relationships: the foreign-key columns, each
\* with the table and column it references, and the relationship() of every
\* field but the many-to-many ones, with the class name it points to
_create_relationships(schema) ==
    LET rels == {i \in DOMAIN schema.fields :
                    schema.fields[i].relationship_type \notin {"None", ""}}
        fks  == {i \in rels : HasForeignKey(schema.fields[i])}
    IN  [ foreign_keys |->
              { [ name       |-> fk_column_name(schema.fields[i]),
                  references |->
                      [ table  |-> Lower(Chars(schema.fields[i].related_schema))
                                       \o <<"s">>,
                        column |-> "id" ] ] : i \in fks },
          relationships |->
              { [ name   |-> schema.fields[i].name,
                  target |-> <<"D", "y", "n", "a", "m", "i", "c">>
                                 \o Title(Chars(schema.fields[i].related_schema)) ]
                : i \in {r \in rels : schema.fields[r].relationship_type
                                          # "many_to_many"} } ]

\* DynamicModelFactory._build_class_attributes: the table name, one column
\* per field that is no relationship, the validators and the relationships;
\* building the validators raises on a bad pattern, building the
\* relationships on a missing related schema
_build_class_attributes(schema) ==
    IF \E i \in DOMAIN schema.fields :
           CompileFails(schema.fields[i]) \/ RelationshipFails(schema.fields[i])
    THEN [raised |-> TRUE]
    ELSE LET relationship_attrs == _create_relationships(schema)
             is_column(field) == IsColumn(field)
             own == SelectSeq(schema.fields, is_column)
         IN  [ raised        |-> FALSE,
               tablename     |-> __tablename__(schema),
               columns       |-> [i \in DOMAIN own |-> own[i].name],
               foreign_keys  |-> relationship_attrs.foreign_keys,
               relationships |-> relationship_attrs.relationships ]

\* the columns a base class brings (models/base.py)
MixinColumns(base) ==
    CASE base = "TimestampMixin"  -> {"created_at", "updated_at"}
      [] base = "IntegerIDMixin"  -> {"id"}
      [] base = "SoftDeleteMixin" -> {"is_deleted", "deleted_at"}
      [] base = "AuditMixin"      -> {"created_by_id", "updated_by_id"}
      [] base = "MetadataMixin"   -> {"metadata_json", "tags"}
      [] OTHER                    -> {}

\* the classes a base class inherits from (models/base.py): DynamicModel is
\* an AuditableModel and a MetadataMixin, AuditableModel a BaseModel, an
\* AuditMixin and a SoftDeleteMixin, BaseModel a TimestampMixin and an
\* IntegerIDMixin
Ancestors(base) ==
    IF base = "DynamicModel"
    THEN {"DynamicModel", "AuditableModel", "BaseModel", "TimestampMixin",
          "IntegerIDMixin", "AuditMixin", "SoftDeleteMixin", "MetadataMixin"}
    ELSE {base}

\* `if <flag> and Mixin not in base_classes: base_classes.append(Mixin)`
append_mixin(bases, enabled, mixin) ==
    IF enabled /\ mixin \notin Range(bases) THEN Append(bases, mixin) ELSE bases

\* create_model, ll. 58-72: a mixin is appended when its flag is set; the
\* list starts as [DynamicModel], so `not in base_classes` holds for each
base_classes(schema) ==
    append_mixin(
        append_mixin(
            append_mixin(
                append_mixin(<<"DynamicModel">>,
                             schema.enable_timestamps, "TimestampMixin"),
                schema.enable_audit, "AuditMixin"),
            schema.enable_soft_delete, "SoftDeleteMixin"),
        TRUE, "MetadataMixin")

\* the columns the class gets from its bases and their ancestors
InheritedColumns(bases) ==
    UNION {MixinColumns(a) : a \in UNION {Ancestors(b) : b \in Range(bases)}}

\* the tables of Base.metadata that the factory has declared
DeclaredTables(model_factory) ==
    {model_factory.created_models[m].tablename :
        m \in DOMAIN model_factory.created_models}

\* type(model_name, tuple(base_classes), attrs): the class that is declared
model_class(schema, mname, bases, attrs) ==
    [ name          |-> mname,
      schema_name   |-> schema.name,
      bases         |-> bases,
      inherited     |-> InheritedColumns(bases),
      tablename     |-> attrs.tablename,
      columns       |-> attrs.columns,
      foreign_keys  |-> attrs.foreign_keys,
      relationships |-> attrs.relationships ]

\* created_models[model_name] = model_class; return model_class
store_model(cached, mname, model) ==
    [raised  |-> FALSE,
     factory |-> [cached EXCEPT !.created_models = Put(@, mname, model)],
     model   |-> model]

\* create_model past the cache lookup: the schema is cached, then the class
\* is declared and stored; building the attributes may raise, and type(...)
\* raises InvalidRequestError when Base.metadata holds the table already
declare_model(cached, tables, schema, mname, attrs) ==
    IF attrs.raised \/ attrs.tablename \in tables
    THEN [raised |-> TRUE, factory |-> cached]
    ELSE store_model(cached, mname,
                     model_class(schema, mname, base_classes(schema), attrs))

\* DynamicModelFactory.create_model on the factory's two caches
create_model_named(model_factory, schema, mname) ==
    IF mname \in DOMAIN model_factory.created_models
    THEN [raised  |-> FALSE,
          factory |-> model_factory,
          model   |-> model_factory.created_models[mname]]
    ELSE declare_model([model_factory EXCEPT
                           !.schema_cache = Put(@, mname, schema)],
                       DeclaredTables(model_factory), schema, mname,
                       _build_class_attributes(schema))

create_model(model_factory, schema) ==
    create_model_named(model_factory, schema, model_name(schema))

\* GenericCRUDService.__init__(model, schema)
GenericCRUDService(model, schema) == [model |-> model, schema |-> schema]

----------------------------------------------------------------------------
(* orchestrator.py: MetaEngineOrchestrator *)

None == [none |-> TRUE]

\* MetaEngineOrchestrator.__init__
NewEngine ==
    [ schemas         |-> EmptyDict,
      models          |-> EmptyDict,
      crud_services   |-> EmptyDict,
      routers         |-> EmptyDict,
      model_factory   |-> [created_models |-> EmptyDict,
                           schema_cache   |-> EmptyDict],
      route_factories |-> EmptyDict ]

\* register_schema, steps 3 and 4: the route factory and its router are
\* stored unless building them raised
store_routes(e3, schema, route_factory) ==
    IF route_factory.raised
    THEN [eng |-> e3, raised |-> TRUE]
    ELSE [eng |-> [e3 EXCEPT
                     !.route_factories =
                         Put(@, schema.name, route_factory.factory),
                     !.routers =
                         Put(@, schema.name, route_factory.factory.router)],
          raised |-> FALSE]

\* register_schema, step 2: the model and its CRUD service are stored
store_service(e2, schema, model, crud_service) ==
    store_routes([e2 EXCEPT
                    !.models = Put(@, schema.name, model),
                    !.crud_services = Put(@, schema.name, crud_service)],
                 schema, RouteFactory(schema, crud_service))

\* register_schema, step 1: what create_model left in the factory is kept
\* whether it raised or not
store_model_of(e1, schema, cm) ==
    IF cm.raised
    THEN [eng |-> [e1 EXCEPT !.model_factory = cm.factory], raised |-> TRUE]
    ELSE store_service([e1 EXCEPT !.model_factory = cm.factory], schema,
                       cm.model, GenericCRUDService(cm.model, schema))

\* MetaEngineOrchestrator.register_schema: the four steps in the order of the
\* code; an exception of step 2 or 4 leaves what the earlier steps stored
register_schema(eng, schema) ==
    store_model_of([eng EXCEPT !.schemas = Put(@, schema.name, schema)],
                   schema, create_model(eng.model_factory, schema))

\* MetaEngineOrchestrator.remove_schema: `del d[name]` of a missing key is a
\* KeyError, raised after the earlier deletions were made
remove_schema(eng, name) ==
    IF name \notin DOMAIN eng.schemas
    THEN [eng |-> eng, raised |-> FALSE, ret |-> "False"]
    ELSE
      LET e1 == [eng EXCEPT !.schemas = Del(@, name)]
      IN  IF name \notin DOMAIN e1.models
          THEN [eng |-> e1, raised |-> TRUE, ret |-> "None"]
          ELSE
            LET e2 == [e1 EXCEPT !.models = Del(@, name)]
            IN  IF name \notin DOMAIN e2.crud_services
                THEN [eng |-> e2, raised |-> TRUE, ret |-> "None"]
                ELSE
                  LET e3 == [e2 EXCEPT !.crud_services = Del(@, name)]
                  IN  IF name \notin DOMAIN e3.routers
                      THEN [eng |-> e3, raised |-> TRUE, ret |-> "None"]
                      ELSE [eng    |-> [e3 EXCEPT !.routers = Del(@, name)],
                            raised |-> FALSE,
                            ret    |-> "True"]

\* update_schema after its remove_schema call
register_after(rm, schema) ==
    IF rm.raised
    THEN [eng |-> rm.eng, raised |-> TRUE]
    ELSE register_schema(rm.eng, schema)

\* MetaEngineOrchestrator.update_schema: remove_schema when the name is
\* registered, then register_schema
update_schema(eng, schema) ==
    register_after(IF schema.name \in DOMAIN eng.schemas
                   THEN remove_schema(eng, schema.name)
                   ELSE [eng |-> eng, raised |-> FALSE],
                   schema)

\* MetaEngineOrchestrator.register_custom_route.  routers[name] and
\* route_factories[name].router are one APIRouter object (both are assigned
\* by lines 71-72 of the same register_schema call), so a route added through
\* the factory is seen through routers[name] as well.
register_custom_route(eng, schema_name, path, method, handler) ==
    IF schema_name \notin DOMAIN eng.route_factories
    THEN [eng |-> eng, raised |-> TRUE]
    ELSE
      LET factory == add_custom_route(eng.route_factories[schema_name],
                                      path, method, handler)
      IN  [eng |-> [eng EXCEPT
                      !.route_factories = Put(@, schema_name, factory),
                      !.routers =
                          IF schema_name \in DOMAIN @
                          THEN Put(@, schema_name, factory.router)
                          ELSE @],
           raised |-> FALSE]

\* the accessors: dict.get(name)
get_schema(eng, name) ==
    IF name \in DOMAIN eng.schemas THEN eng.schemas[name] ELSE None

get_model(eng, name) ==
    IF name \in DOMAIN eng.models THEN eng.models[name] ELSE None

get_crud_service(eng, name) ==
    IF name \in DOMAIN eng.crud_services THEN eng.crud_services[name] ELSE None

get_router(eng, name) ==
    IF name \in DOMAIN eng.routers THEN eng.routers[name] ELSE None

\* MetaEngineOrchestrator.get_schema_info (the entries the claims read)
get_schema_info(eng, name) ==
    IF name \notin DOMAIN eng.schemas
    THEN None
    ELSE LET schema == eng.schemas[name]
         IN  [ name        |-> schema.name,
               field_count |-> Len(schema.fields),
               fields      |-> [i \in DOMAIN schema.fields |->
                                   schema.fields[i].name] ]

\* sum(len(schema.fields) for schema in schemas.values())
RECURSIVE SumFields(_, _)
SumFields(schemas, names) ==
    IF names = {} THEN 0
    ELSE LET n == CHOOSE x \in names : TRUE
         IN  Len(schemas[n].fields) + SumFields(schemas, names \ {n})

\* MetaEngineOrchestrator.get_system_stats
get_system_stats(eng) ==
    [ registered_schemas |-> Cardinality(DOMAIN eng.schemas),
      total_fields       |-> SumFields(eng.schemas, DOMAIN eng.schemas),
      generated_models   |-> Cardinality(DOMAIN eng.models),
      crud_services      |-> Cardinality(DOMAIN eng.crud_services),
      api_routers        |-> Cardinality(DOMAIN eng.routers),
      total_endpoints    |-> Cardinality(DOMAIN eng.schemas) * 6,
      schemas            |-> DOMAIN eng.schemas ]

\* MetaEngineOrchestrator.get_schema_custom_routes
get_schema_custom_routes(eng, schema_name) ==
    IF schema_name \notin DOMAIN eng.route_factories
    THEN EmptyDict
    ELSE get_custom_routes(eng.route_factories[schema_name])

----------------------------------------------------------------------------
(* The calls made on the orchestrator *)

\* at most this many custom routes are ever held by the route factories
MaxCustom == 2

Task == <<"T", "a", "s", "k">>

Item == <<"i", "t", "e", "m">>

Names == {Task, Item}

\* FieldDefinition(name=..., field_type=FieldType.STRING,
\* validation_rules=...): no choices, no relationship
Field(name, rules) ==
    [ name              |-> name,
      field_type        |-> "string",
      choices           |-> NoneValue,
      relationship_type |-> "None",
      related_schema    |-> "None",
      foreign_key       |-> "None",
      validation_rules  |-> rules ]

\* ValidationRule(rule_type="regex", value=...) with a pattern that does
\* not compile
BadRegex == [rule_type |-> "regex", compiles |-> FALSE]

\* SchemaDefinition(name=..., fields=..., auth_config=...): no table_name
\* (the empty text stands for None: only its truth is asked), the three
\* enable_ flags at their default
Schema(name, fields, auth_config) ==
    [ name               |-> name,
      fields             |-> fields,
      auth_config        |-> auth_config,
      table_name         |-> <<>>,
      enable_timestamps  |-> TRUE,
      enable_audit       |-> TRUE,
      enable_soft_delete |-> TRUE ]

\* the schemas handed to register_schema and update_schema under one name:
\* two field lists (the second drops a field), a schema whose regex rule does
\* not compile, and a schema whose auth_config holds None under
\* "public_routes"
SchemasOf(name) ==
    { Schema(name, <<Field("title", <<>>), Field("done", <<>>)>>,
             DefaultAuthConfig),
      Schema(name, <<Field("title", <<>>)>>, DefaultAuthConfig),
      Schema(name, <<Field("title", <<>>), Field("code", <<BadRegex>>)>>,
             DefaultAuthConfig),
      Schema(name, <<Field("title", <<>>), Field("done", <<>>)>>,
             [DefaultAuthConfig EXCEPT !.public_routes = NoneValue]) }

\* Task comes in all four forms, Item in one
SchemaInputs ==
    SchemasOf(Task) \cup {Schema(Item, <<Field("title", <<>>)>>, DefaultAuthConfig)}

\* the custom routes handed to register_custom_route
CustomInputs ==
    { [path |-> <<Lit("stats")>>, method |-> "GET", handler |-> "stats_v1"],
      [path |-> <<Lit("stats")>>, method |-> "GET", handler |-> "stats_v2"],
      [path |-> <<Param("record_id"), Lit("publish")>>, method |-> "POST",
       handler |-> "publish"] }

RECURSIVE CustomCount(_, _)
CustomCount(factories, names) ==
    IF names = {} THEN 0
    ELSE LET n == CHOOSE x \in names : TRUE
         IN  (Len(factories[n].router) - 6)
             + CustomCount(factories, names \ {n})

Call(op, name, schema, r, ret) ==
    [op |-> op, name |-> name, schema |-> schema, raised |-> r.raised,
     ret |-> ret]

RegInit ==
    /\ engine = NewEngine
    /\ last = [op |-> "init", name |-> <<>>, schema |-> None,
               raised |-> FALSE, ret |-> "None"]

RegisterSchema(schema) ==
    \E r \in {register_schema(engine, schema)} :
        /\ engine' = r.eng
        /\ last' = Call("register_schema", schema.name, schema, r, "None")
        /\ UNCHANGED <<authVars, routeVars, listVars, extVars>>

RemoveSchema(name) ==
    LET r == remove_schema(engine, name)
    IN  /\ engine' = r.eng
        /\ last' = Call("remove_schema", name, None, r, r.ret)
        /\ UNCHANGED <<authVars, routeVars, listVars, extVars>>

UpdateSchema(schema) ==
    \E r \in {update_schema(engine, schema)} :
        /\ engine' = r.eng
        /\ last' = Call("update_schema", schema.name, schema, r, "None")
        /\ UNCHANGED <<authVars, routeVars, listVars, extVars>>

RegisterCustomRoute(name, c) ==
    /\ CustomCount(engine.route_factories, DOMAIN engine.route_factories)
          < MaxCustom
    /\ LET r == register_custom_route(engine, name, c.path, c.method,
                                      c.handler)
       IN  /\ engine' = r.eng
           /\ last' = Call("register_custom_route", name, None, r, "None")
    /\ UNCHANGED <<authVars, routeVars, listVars, extVars>>

RegNext ==
    \/ \E s \in SchemaInputs : RegisterSchema(s)
    \/ \E n \in Names : RemoveSchema(n)
    \/ \E s \in SchemaInputs : UpdateSchema(s)
    \/ \E n \in Names, c \in CustomInputs : RegisterCustomRoute(n, c)

----------------------------------------------------------------------------
(* The construction of a RouteFactory, one generated route at a time *)

\* at most this many route names are listed under public_routes, and under
\* protected_routes
MaxListed == 2

RouteLists ==
    {Absent, NoneValue}
        \cup {ListOf(S) : S \in {X \in SUBSET Ops : Cardinality(X) <= MaxListed}}

Flags == {"absent", "True", "False"}

AuthConfigs ==
    [ require_auth     : Flags,
      public_routes    : RouteLists,
      protected_routes : RouteLists,
      read_public      : Flags,
      write_protected  : Flags ]

\* no RouteFactory is under construction
RfIdle == [auth_config |-> None, routes |-> <<>>, raised |-> FALSE]

AuthInit ==
    \E c \in AuthConfigs :
        rf = [auth_config |-> c, routes |-> <<>>, raised |-> FALSE]

\* the next _add_<name>_route call of _create_crud_routes: its decorator
\* evaluates self._get_auth_dependency(name); a TypeError ends __init__
AddCrudRoute ==
    /\ ~rf.raised
    /\ Len(rf.routes) < Len(RouteNames)
    /\ LET route == CrudRoute([auth_config |-> rf.auth_config],
                              RouteNames[Len(rf.routes) + 1])
       IN  rf' = IF route.auth = "TypeError"
                 THEN [rf EXCEPT !.raised = TRUE]
                 ELSE [rf EXCEPT !.routes = Append(@, route)]
    /\ UNCHANGED <<regVars, routeVars, listVars, extVars>>

AuthNext == AddCrudRoute

----------------------------------------------------------------------------
(* Requests to the router of one schema *)

\* a request path is the sequence of its segments: "/count" is <<"count">>
RequestPaths == {<<>>, <<"count">>, <<"7">>, <<"stats">>, <<"7", "publish">>}

Methods == {"GET", "POST", "PUT", "DELETE"}

\* the segments that parse as an int (record_id: int = Path(...))
IntTexts == {"7"}

\* a path template matches a path of as many segments whose literal segments
\* are equal; a parameter matches any segment
Matches(template, path) ==
    /\ Len(template) = Len(path)
    /\ \A i \in DOMAIN template :
          template[i].param \/ template[i].text = path[i]

\* the status a generated operation answers with when its handler ends
\* normally (status_code of its decorator, 200 when none is given)
SuccessStatus(endpoint) ==
    CASE endpoint = "create" -> 201
      [] endpoint = "delete" -> 204
      [] OTHER               -> 200

\* the handlers of get, update and delete declare record_id: int
ValidParams(route, path) ==
    \A i \in DOMAIN route.path :
        (route.endpoint \in {"get", "update", "delete"} /\ route.path[i].param)
            => path[i] \in IntTexts

\* the router hands a request to the first route, in the order the routes
\* were added, whose path and method match; that route's parameters are then
\* validated (422).  A path matched under other methods only is a 405, a
\* path matched by no route a 404.
Dispatch(router, method, path) ==
    LET full == {i \in DOMAIN router :
                    Matches(router[i].path, path) /\ router[i].method = method}
        partial == {i \in DOMAIN router : Matches(router[i].path, path)}
    IN  IF full # {}
        THEN LET i == CHOOSE j \in full : \A k \in full : j <= k
             IN  [ endpoint |-> router[i].endpoint,
                   status   |-> IF ValidParams(router[i], path)
                                THEN SuccessStatus(router[i].endpoint)
                                ELSE 422 ]
        ELSE [ endpoint |-> "none",
               status   |-> IF partial # {} THEN 405 ELSE 404 ]

NoRequest == [method |-> "none", path |-> <<>>]

\* no router is serving
AppIdle == [factory |-> None, request |-> NoRequest, response |-> None]

\* the RouteFactory of a schema with the default auth_config, as constructed
RouteInit ==
    app = [ factory  |-> RouteFactory(Schema(Item, <<Field("title", <<>>)>>,
                                             DefaultAuthConfig),
                                      None).factory,
            request  |-> NoRequest,
            response |-> None ]

AddCustomRoute(c) ==
    /\ Len(app.factory.router) < Len(RouteNames) + MaxCustom
    /\ app' = [app EXCEPT
                 !.factory = add_custom_route(@, c.path, c.method, c.handler)]
    /\ UNCHANGED <<regVars, authVars, listVars, extVars>>

Request(method, path) ==
    /\ app' = [app EXCEPT
                 !.request = [method |-> method, path |-> path],
                 !.response = Dispatch(app.factory.router, method, path)]
    /\ UNCHANGED <<regVars, authVars, listVars, extVars>>

RouteNext ==
    \/ \E c \in CustomInputs : AddCustomRoute(c)
    \/ \E m \in Methods, p \in RequestPaths : Request(m, p)

----------------------------------------------------------------------------
(* The list route of one schema over its table *)

\* at most this many records are ever created
MaxRecords == 4

\* the largest skip and the largest limit a request is sent with
MaxSkip == 4

MaxLimit == 3

\* limit: int = Query(100, ge=1, le=1000)
LimitCeiling == 1000

Min(a, b) == IF a < b THEN a ELSE b

Max(a, b) == IF a < b THEN b ELSE a

\* GenericCRUDService: the records a default query sees (soft-deleted records
\* are excluded), in identifier order
Visible(rows) == SelectSeq(rows, LAMBDA r : ~r.is_deleted)

\* GenericCRUDService.list(params): the page of at most `limit` records after
\* the first `skip`
crud_list(rows, skip, limit) ==
    LET v == Visible(rows)
    IN  SubSeq(v, skip + 1, Min(skip + limit, Len(v)))

\* GenericCRUDService.count(params)
crud_count(rows) == Len(Visible(rows))

\* a str value of a record, or of a request payload; Python's None is the
\* value PyNone
PyNone == "None"

\* FieldDefinition(name=..., field_type=FieldType.STRING, required=...,
\* default=...) as the generated routes read it
CrudField(name, required, default) ==
    [name |-> name, required |-> required, default |-> default]

\* the fields of the schema whose routes are exercised: a required field, and
\* a required field that declares a default
CrudFields ==
    << CrudField("title", TRUE, PyNone), CrudField("status", TRUE, "new") >>

FieldNamesOf(fields) == {fields[i].name : i \in DOMAIN fields}

FieldNamed(fields, name) ==
    fields[CHOOSE i \in DOMAIN fields : fields[i].name = name]

\* GenericCRUDService.create: the table assigns the next identifier; a column
\* the data does not name takes its default
crud_create(st, fields, data, created_by_id) ==
    LET row == [ id            |-> st.next_id,
                 data          |-> [f \in FieldNamesOf(fields) |->
                                      IF f \in DOMAIN data THEN data[f]
                                      ELSE FieldNamed(fields, f).default],
                 is_deleted    |-> FALSE,
                 deleted_at    |-> PyNone,
                 updated_by_id |-> PyNone ]
    IN  [ rows |-> Append(st.rows, row), next_id |-> st.next_id + 1 ]

\* soft_delete stamping deleted_at and leaving the is_deleted flag
soft_delete_keeps_flag(record, deleted_by_id) ==
    [record EXCEPT !.deleted_at = "utcnow"]

\* AuditableModel.soft_delete (models/base.py)
soft_delete(record, deleted_by_id) ==
    [record EXCEPT !.is_deleted = TRUE,
                   !.deleted_at = "utcnow",
                   !.updated_by_id = IF deleted_by_id # PyNone
                                     THEN deleted_by_id ELSE @]

\* GenericCRUDService.delete: a soft delete flags the record, a hard delete
\* takes it out of the table; an identifier no default query sees is left alone
crud_delete(st, record_id, deleted_by_id, hard_delete) ==
    IF \E i \in DOMAIN st.rows :
           st.rows[i].id = record_id /\ ~st.rows[i].is_deleted
    THEN [st EXCEPT !.rows =
            IF hard_delete
            THEN SelectSeq(@, LAMBDA r : r.id # record_id)
            ELSE [i \in DOMAIN @ |->
                    IF @[i].id = record_id
                    THEN soft_delete(@[i], deleted_by_id)
                    ELSE @[i]]]
    ELSE st

\* list_records, as a mutation would have it: has_next also on the last page
list_records_has_next_inclusive(rows, skip, limit) ==
    IF skip < 0 \/ limit < 1 \/ limit > LimitCeiling
    THEN [status |-> 422]
    ELSE LET records == crud_list(rows, skip, limit)
             total   == crud_count(rows)
         IN  [ status   |-> 200,
               items    |-> [i \in DOMAIN records |-> records[i].id],
               total    |-> total,
               skip     |-> skip,
               limit    |-> limit,
               has_next |-> skip + limit <= total ]

\* RouteFactory._add_list_route.list_records: skip and limit are validated by
\* their Query declarations, then the envelope is built from list and count
list_records(rows, skip, limit) ==
    IF skip < 0 \/ limit < 1 \/ limit > LimitCeiling
    THEN [status |-> 422]
    ELSE LET records == crud_list(rows, skip, limit)
             total   == crud_count(rows)
         IN  [ status   |-> 200,
               items    |-> [i \in DOMAIN records |-> records[i].id],
               total    |-> total,
               skip     |-> skip,
               limit    |-> limit,
               has_next |-> skip + limit < total ]

StoreIdle == [rows |-> <<>>, next_id |-> 1]

ListInit ==
    /\ store = StoreIdle
    /\ resp = None

CreateRecord ==
    /\ store.next_id <= MaxRecords
    /\ store' = crud_create(store, CrudFields, [f \in {"title"} |-> "a"], PyNone)
    /\ UNCHANGED <<resp, regVars, authVars, routeVars, extVars>>

DeleteRecord(record_id, hard_delete) ==
    /\ store' = crud_delete(store, record_id, PyNone, hard_delete)
    /\ UNCHANGED <<resp, regVars, authVars, routeVars, extVars>>

ListRecords(skip, limit) ==
    /\ resp' = list_records(store.rows, skip, limit)
    /\ UNCHANGED <<store, regVars, authVars, routeVars, extVars>>

ListNext ==
    \/ CreateRecord
    \/ \E id \in 1..MaxRecords, hard \in BOOLEAN : DeleteRecord(id, hard)
    \/ \E skip \in (-1)..MaxSkip, limit \in 0..MaxLimit : ListRecords(skip, limit)

----------------------------------------------------------------------------
(* The session dependency: app/core/database.py *)

MaxRequests == 2

MaxPending == 2

Requests == 1..MaxRequests

\* what the request body, or the commit, can raise into get_db_session:
\* an SQLAlchemyError, another Exception (the HTTPException the generated
\* routes raise), or a BaseException that is no Exception (the
\* asyncio.CancelledError of a cancelled request)
Thrown == {"none", "SQLAlchemyError", "HTTPException", "CancelledError"}

\* `except SQLAlchemyError` and `except Exception` together (ll. 227-234)
IsException(e) == e \in {"SQLAlchemyError", "HTTPException"}

\* session = db_manager.session_factory()  (l. 223): an AsyncSession with
\* autocommit=False, its transaction open until commit, rollback or close
NewSession ==
    [ tx        |-> "active",
      pending   |-> 0,
      closed    |-> FALSE,
      commits   |-> 0,
      rollbacks |-> 0,
      closes    |-> 0 ]

\* await session.commit()  (l. 226)
session_commit(session, fails) ==
    IF fails
    THEN [raised  |-> "SQLAlchemyError",
          session |-> [session EXCEPT !.commits = @ + 1, !.tx = "failed"]]
    ELSE [raised  |-> "none",
          session |-> [session EXCEPT !.commits = @ + 1, !.tx = "committed"]]

\* await session.rollback()  (ll. 228, 232)
session_rollback(session, fails) ==
    IF fails
    THEN [raised  |-> "SQLAlchemyError",
          session |-> [session EXCEPT !.rollbacks = @ + 1]]
    ELSE [raised  |-> "none",
          session |-> [session EXCEPT !.rollbacks = @ + 1,
                                      !.tx = "rolled_back"]]

\* await session.close()  (l. 236): releases the connection; a transaction
\* that is neither committed nor rolled back is rolled back with it
session_close(session) ==
    [session EXCEPT !.closes = @ + 1,
                    !.closed = TRUE,
                    !.tx = IF @ \in {"active", "failed"}
                           THEN "rolled_back" ELSE @]

\* get_db_session with the commit made whatever the body did
get_db_session_always_commits(session, thrown, commit_fails, rollback_fails) ==
    LET c == session_commit(session, commit_fails)
    IN  [ raised        |-> IF thrown # "none" THEN thrown ELSE c.raised,
          commit_raised |-> c.raised # "none",
          session       |-> session_close(c.session) ]

\* get_db_session from the yield on (ll. 225-236): `thrown` is what the
\* request body raised at the yield, "none" when it finished
get_db_session(session, thrown, commit_fails, rollback_fails) ==
    LET c      == IF thrown = "none"
                  THEN session_commit(session, commit_fails)
                  ELSE [raised |-> thrown, session |-> session]
        caught == IsException(c.raised)
        rb     == IF caught
                  THEN session_rollback(c.session, rollback_fails)
                  ELSE [raised |-> "none", session |-> c.session]
    IN  [ raised        |-> IF rb.raised # "none" THEN rb.raised ELSE c.raised,
          commit_raised |-> thrown = "none" /\ c.raised # "none",
          session       |-> session_close(rb.session) ]

\* a request that has not started
NoSession ==
    [ pc            |-> "idle",
      session       |-> None,
      thrown        |-> "none",
      commit_raised |-> FALSE,
      raised        |-> "none",
      applied       |-> 0 ]

\* db_manager = DatabaseManager()  (l. 207), and an empty database
SessionInit ==
    /\ db = [session_factory |-> FALSE, committed |-> 0]
    /\ sessions = [r \in Requests |-> NoSession]

\* DatabaseManager.connect
Connect ==
    /\ ~db.session_factory
    /\ db' = [db EXCEPT !.session_factory = TRUE]
    /\ UNCHANGED <<sessions, regVars, authVars, routeVars, listVars, crudVars, buildVars,
                 moreVars>>

\* a request enters get_db_session (l. 223); the session_factory property
\* raises RuntimeError before connect()
OpenSession(r) ==
    /\ sessions[r].pc = "idle"
    /\ sessions' =
         [sessions EXCEPT ![r] =
            IF db.session_factory
            THEN [@ EXCEPT !.pc = "body", !.session = NewSession]
            ELSE [@ EXCEPT !.pc = "done", !.raised = "RuntimeError"]]
    /\ UNCHANGED <<db, regVars, authVars, routeVars, listVars, crudVars, buildVars,
                 moreVars>>

\* the request body changes a record through the session it was given
BodyWrite(r) ==
    /\ sessions[r].pc = "body"
    /\ sessions[r].session.pending < MaxPending
    /\ sessions' = [sessions EXCEPT ![r].session.pending = @ + 1]
    /\ UNCHANGED <<db, regVars, authVars, routeVars, listVars, crudVars, buildVars,
                 moreVars>>

\* the request body ends and get_db_session resumes after its yield
EndRequest(r, thrown, commit_fails, rollback_fails) ==
    /\ sessions[r].pc = "body"
    /\ LET out == get_db_session(sessions[r].session, thrown,
                                 commit_fails, rollback_fails)
           applied == IF out.session.tx = "committed"
                      THEN out.session.pending ELSE 0
       IN  /\ sessions' =
                [sessions EXCEPT ![r] =
                   [ pc            |-> "done",
                     session       |-> out.session,
                     thrown        |-> thrown,
                     commit_raised |-> out.commit_raised,
                     raised        |-> out.raised,
                     applied       |-> applied ]]
           /\ db' = [db EXCEPT !.committed = @ + applied]
    /\ UNCHANGED <<regVars, authVars, routeVars, listVars, crudVars, buildVars,
                 moreVars>>

SessionNext ==
    \/ Connect
    \/ \E r \in Requests : OpenSession(r)
    \/ \E r \in Requests : BodyWrite(r)
    \/ \E r \in Requests, thrown \in Thrown, cf \in BOOLEAN, rf_ \in BOOLEAN :
          EndRequest(r, thrown, cf, rf_)

----------------------------------------------------------------------------
(* The generated routes of one schema over its table: route_factory.py,   *)
(* and the exception handlers of main.py                                   *)

\* at most this many records are created through the create route
MaxCrudRecords == 1

\* pydantic's marker of a required field: Field(default=...)
Ellipsis == "..."

\* RouteFactory._get_pydantic_field_info: the type is Optional unless
\* `required`; the default is the field's own when it has one, else None
\* for an optional field, else the required marker
_get_pydantic_field_info(field, required) ==
    [ optional |-> ~required,
      default  |-> IF field.default # PyNone THEN field.default
                   ELSE IF ~required THEN PyNone
                   ELSE Ellipsis ]

\* RouteFactory._create_request_model
_create_request_model(fields) ==
    [f \in FieldNamesOf(fields) |->
        _get_pydantic_field_info(FieldNamed(fields, f),
                                 FieldNamed(fields, f).required)]

\* RouteFactory._create_update_model
_create_update_model(fields) ==
    [f \in FieldNamesOf(fields) |->
        _get_pydantic_field_info(FieldNamed(fields, f), FALSE)]

\* the request body parsed into a generated pydantic model: a field whose
\* default is the required marker must be there, None is taken by an
\* Optional field only, a field left out takes its default, and the model
\* remembers the fields that were set
ParseBody(model, payload) ==
    LET missing == {f \in DOMAIN model :
                       f \notin DOMAIN payload /\ model[f].default = Ellipsis}
        nulls   == {f \in DOMAIN model \cap DOMAIN payload :
                       payload[f] = PyNone /\ ~model[f].optional}
    IN  IF missing \cup nulls # {}
        THEN [valid |-> FALSE]
        ELSE [ valid      |-> TRUE,
               values     |-> [f \in DOMAIN model |->
                                 IF f \in DOMAIN payload THEN payload[f]
                                 ELSE model[f].default],
               fields_set |-> DOMAIN model \cap DOMAIN payload ]

\* data.dict(exclude_unset=True)
dict_exclude_unset(data) == [f \in data.fields_set |-> data.values[f]]

\* data.dict()
dict_all(data) == data.values

\* GenericCRUDService.get: the record of that identifier, as a sequence of
\* none or one; a soft-deleted record only when include_deleted
crud_get(rows, record_id, include_deleted) ==
    SelectSeq(rows, LAMBDA r : r.id = record_id
                               /\ (include_deleted \/ ~r.is_deleted))

\* GenericCRUDService.update: only the fields the data names are written
crud_update(st, record_id, data, updated_by_id) ==
    [st EXCEPT !.rows =
        [i \in DOMAIN @ |->
            IF @[i].id = record_id /\ ~@[i].is_deleted
            THEN [@[i] EXCEPT
                    !.data = [f \in DOMAIN @ |->
                                IF f \in DOMAIN data THEN data[f] ELSE @[f]],
                    !.updated_by_id = updated_by_id]
            ELSE @[i]]]

\* what the data-access service raises inside a route: nothing, a
\* CRUDException, or any other exception
Faults == {"none", "CRUDException", "Exception"}

\* str(e)
ExcText(type) ==
    IF type = "CRUDException" THEN "invalid value" ELSE "connection lost"

NoExc == [type |-> "none", status_code |-> 0, detail |-> ""]

Raise(type) == [type |-> type, status_code |-> 0, detail |-> ExcText(type)]

HTTPException(status_code, detail) ==
    [type |-> "HTTPException", status_code |-> status_code, detail |-> detail]

\* the except clauses of create_record and count_records (ll. 112-115,
\* 327-330)
ExceptCrud(exc) ==
    IF exc.type = "none" THEN exc
    ELSE IF exc.type = "CRUDException" THEN HTTPException(400, exc.detail)
    ELSE HTTPException(500, "Internal server error")

\* the except clauses of get_record, update_record and delete_record
\* (ll. 209-214, 250-255, 288-293): an HTTPException is raised again
ExceptHttpCrud(exc) ==
    IF exc.type = "HTTPException" THEN exc ELSE ExceptCrud(exc)

\* what a route hands back: the exception it raised or its status and body,
\* and the table it leaves
Outcome(exc, status_code, body, st) ==
    [exc |-> exc, status_code |-> status_code, body |-> body, store |-> st]

\* RouteFactory._add_create_route.create_record
create_record(st, fields, payload, fault) ==
    LET data == ParseBody(_create_request_model(fields), payload)
    IN  IF ~data.valid
        THEN Outcome(Raise("RequestValidationError"), 422, <<>>, st)
        ELSE LET tried   == IF fault # "none" THEN Raise(fault) ELSE NoExc
                 created == crud_create(st, fields, dict_exclude_unset(data),
                                        PyNone)
             IN  IF tried.type # "none"
                 THEN Outcome(ExceptCrud(tried), 201, <<>>, st)
                 ELSE Outcome(NoExc, 201,
                              <<created.rows[Len(created.rows)]>>, created)

\* get_record without the clause that raises an HTTPException again
get_record_recovers_all(st, record_id, fault) ==
    LET instance == crud_get(st.rows, record_id, FALSE)
        tried    == IF fault # "none" THEN Raise(fault)
                    ELSE IF instance = <<>>
                         THEN HTTPException(404, "not found")
                         ELSE NoExc
    IN  Outcome(ExceptCrud(tried), 200, instance, st)

\* RouteFactory._add_get_route.get_record
get_record(st, record_id, fault) ==
    LET instance == crud_get(st.rows, record_id, FALSE)
        tried    == IF fault # "none" THEN Raise(fault)
                    ELSE IF instance = <<>>
                         THEN HTTPException(404, "not found")
                         ELSE NoExc
    IN  Outcome(ExceptHttpCrud(tried), 200, instance, st)

\* update_record handing data.dict() to the update
update_record_all_fields(st, fields, record_id, payload, fault) ==
    LET data == ParseBody(_create_update_model(fields), payload)
    IN  IF ~data.valid
        THEN Outcome(Raise("RequestValidationError"), 422, <<>>, st)
        ELSE LET updated  == crud_update(st, record_id, dict_all(data), PyNone)
                 instance == crud_get(updated.rows, record_id, FALSE)
                 tried    == IF fault # "none" THEN Raise(fault)
                             ELSE IF instance = <<>>
                                  THEN HTTPException(404, "not found")
                                  ELSE NoExc
             IN  IF tried.type # "none"
                 THEN Outcome(ExceptHttpCrud(tried), 200, <<>>, st)
                 ELSE Outcome(NoExc, 200, instance, updated)

\* RouteFactory._add_update_route.update_record
update_record(st, fields, record_id, payload, fault) ==
    LET data == ParseBody(_create_update_model(fields), payload)
    IN  IF ~data.valid
        THEN Outcome(Raise("RequestValidationError"), 422, <<>>, st)
        ELSE LET updated  == crud_update(st, record_id,
                                         dict_exclude_unset(data), PyNone)
                 instance == crud_get(updated.rows, record_id, FALSE)
                 tried    == IF fault # "none" THEN Raise(fault)
                             ELSE IF instance = <<>>
                                  THEN HTTPException(404, "not found")
                                  ELSE NoExc
             IN  IF tried.type # "none"
                 THEN Outcome(ExceptHttpCrud(tried), 200, <<>>, st)
                 ELSE Outcome(NoExc, 200, instance, updated)

\* RouteFactory._add_delete_route.delete_record
delete_record(st, record_id, hard_delete, fault) ==
    LET after   == crud_delete(st, record_id, PyNone, hard_delete)
        deleted == after # st
        tried   == IF fault # "none" THEN Raise(fault)
                   ELSE IF ~deleted
                        THEN HTTPException(404, "not found")
                        ELSE NoExc
    IN  IF tried.type # "none"
        THEN Outcome(ExceptHttpCrud(tried), 204, <<>>, st)
        ELSE Outcome(NoExc, 204, <<>>, after)

\* RouteFactory._add_count_route.count_records, the handler itself
count_records(st, fault) ==
    LET tried == IF fault # "none" THEN Raise(fault) ELSE NoExc
    IN  Outcome(ExceptCrud(tried), 200, <<crud_count(st.rows)>>, st)

\* main.py, setup_exception_handlers.http_exception_handler
http_exception_handler(exc) ==
    [status_code |-> exc.status_code, message |-> exc.detail]

\* main.py, setup_exception_handlers.validation_exception_handler
validation_exception_handler(exc) ==
    [status_code |-> 422, message |-> "Validation error"]

\* main.py, setup_exception_handlers.general_exception_handler
general_exception_handler(exc, debug) ==
    [ status_code |-> 500,
      message     |-> IF debug THEN exc.detail ELSE "Internal server error" ]

\* the application answering for a route: an exception the route raised goes
\* to the handler registered for its class
Respond(out, debug) ==
    IF out.exc.type = "none"
    THEN [status_code |-> out.status_code, message |-> ""]
    ELSE IF out.exc.type = "HTTPException"
    THEN http_exception_handler(out.exc)
    ELSE IF out.exc.type = "RequestValidationError"
    THEN validation_exception_handler(out.exc)
    ELSE general_exception_handler(out.exc, debug)

----------------------------------------------------------------------------
(* Requests to the generated routes *)

\* the request bodies: any subset of the schema's fields, each field with
\* the one value
PayloadsOf(value) ==
    UNION {[S -> {value}] : S \in SUBSET FieldNamesOf(CrudFields)}

\* a create request writes "a", an update request writes "b"
CreatePayloads == PayloadsOf("a")

UpdatePayloads == PayloadsOf("b")

\* the answer to the request served last, with the request itself
Reply(op, record_id, payload, hard_delete, fault, out) ==
    [ op          |-> op,
      record_id   |-> record_id,
      payload     |-> payload,
      hard_delete |-> hard_delete,
      fault       |-> fault,
      status_code |-> Respond(out, settings.DEBUG).status_code,
      message     |-> Respond(out, settings.DEBUG).message,
      body        |-> IF out.exc.type = "none" THEN out.body ELSE <<>> ]

NoReply ==
    [ op          |-> "none",
      record_id   |-> 0,
      payload     |-> EmptyDict,
      hard_delete |-> FALSE,
      fault       |-> "none",
      status_code |-> 0,
      message     |-> "",
      body        |-> <<>> ]

\* settings = Settings(): DEBUG is True unless the environment sets it
CrudInit ==
    /\ settings \in {[DEBUG |-> d] : d \in BOOLEAN}
    /\ reply = NoReply

CrudIdle ==
    /\ settings = [DEBUG |-> TRUE]
    /\ reply = NoReply

CreateRequest(payload, fault) ==
    /\ store.next_id <= MaxCrudRecords
    /\ LET out == create_record(store, CrudFields, payload, fault)
       IN  /\ store' = out.store
           /\ reply' = Reply("create", 0, payload, FALSE, fault, out)
    /\ UNCHANGED <<resp, settings, regVars, authVars, routeVars, sessionVars,
                   buildVars, moreVars>>

GetRequest(record_id, fault) ==
    /\ LET out == get_record(store, record_id, fault)
       IN  /\ store' = out.store
           /\ reply' = Reply("get", record_id, EmptyDict, FALSE, fault, out)
    /\ UNCHANGED <<resp, settings, regVars, authVars, routeVars, sessionVars,
                   buildVars, moreVars>>

UpdateRequest(record_id, payload, fault) ==
    /\ LET out == update_record(store, CrudFields, record_id, payload, fault)
       IN  /\ store' = out.store
           /\ reply' = Reply("update", record_id, payload, FALSE, fault, out)
    /\ UNCHANGED <<resp, settings, regVars, authVars, routeVars, sessionVars,
                   buildVars, moreVars>>

DeleteRequest(record_id, hard_delete, fault) ==
    /\ LET out == delete_record(store, record_id, hard_delete, fault)
       IN  /\ store' = out.store
           /\ reply' = Reply("delete", record_id, EmptyDict, hard_delete,
                             fault, out)
    /\ UNCHANGED <<resp, settings, regVars, authVars, routeVars, sessionVars,
                   buildVars, moreVars>>

CountRequest(fault) ==
    /\ LET out == count_records(store, fault)
       IN  /\ store' = out.store
           /\ reply' = Reply("count", 0, EmptyDict, FALSE, fault, out)
    /\ UNCHANGED <<resp, settings, regVars, authVars, routeVars, sessionVars,
                   buildVars, moreVars>>

CrudNext ==
    \/ \E payload \in CreatePayloads, fault \in Faults : CreateRequest(payload, fault)
    \/ \E id \in 1..(MaxCrudRecords + 1), fault \in Faults :
          GetRequest(id, fault)
    \/ \E id \in 1..(MaxCrudRecords + 1), payload \in UpdatePayloads,
          fault \in Faults : UpdateRequest(id, payload, fault)
    \/ \E id \in 1..(MaxCrudRecords + 1), hard \in BOOLEAN, fault \in Faults :
          DeleteRequest(id, hard, fault)
    \/ \E fault \in Faults : CountRequest(fault)

----------------------------------------------------------------------------
(* schema_definition.py: the construction of a FieldDefinition and of a    *)
(* SchemaDefinition, followed by its registration                          *)

\* a keyword argument the caller does not supply
Unset == "<unset>"

\* bool(v) of a str or None
Truthy(v) == v \notin {"None", ""}

\* the keyword arguments of FieldDefinition(...) that its validators read
FieldKw(name, field_type, choices, relationship_type, related_schema) ==
    [ name              |-> name,
      field_type        |-> field_type,
      choices           |-> choices,
      relationship_type |-> relationship_type,
      related_schema    |-> related_schema ]

\* FieldDefinition.validate_choices(v, values): TRUE when it raises
validate_choices(v, values) ==
    /\ values.field_type \in {"choice", "multi_choice"}
    /\ ~(v.kind = "list" /\ v.items # {})

\* FieldDefinition.validate_relationship_schema(v, values): TRUE when it
\* raises
validate_relationship_schema(v, values) ==
    /\ Truthy(values.relationship_type)
    /\ ~Truthy(v)

\* FieldDefinition(**kw): a validator declared with @validator runs on the
\* value the caller supplies; a field left out takes its default, None,
\* and its validator is not called
FieldDefinition(kw) ==
    LET relationship_type == IF kw.relationship_type = Unset
                             THEN "None" ELSE kw.relationship_type
        values == [ field_type        |-> kw.field_type,
                    relationship_type |-> relationship_type ]
        raised ==
            \/ kw.choices # Absent /\ validate_choices(kw.choices, values)
            \/ /\ kw.related_schema # Unset
               /\ validate_relationship_schema(kw.related_schema, values)
    IN  IF raised
        THEN [raised |-> TRUE]
        ELSE [ raised |-> FALSE,
               field  |->
                 [ name              |-> kw.name,
                   field_type        |-> kw.field_type,
                   choices           |-> IF kw.choices = Absent
                                         THEN NoneValue ELSE kw.choices,
                   relationship_type |-> relationship_type,
                   related_schema    |-> IF kw.related_schema = Unset
                                         THEN "None" ELSE kw.related_schema,
                   foreign_key       |-> "None",
                   validation_rules  |-> <<>> ] ]

Digits == {"1"}

\* str.isidentifier on the characters of a name
isidentifier(v) ==
    /\ v # <<>>
    /\ v[1] \notin Digits
    /\ \A i \in DOMAIN v :
          IsCased(v[i]) \/ v[i] \in Digits \/ v[i] = "_"

\* SchemaDefinition.validate_name(v): TRUE when it raises
validate_name(v) ==
    \/ ~isidentifier(v)
    \/ v[1] = "_"

\* validate_fields without the test of unique names
validate_fields_allows_duplicates(v) ==
    \/ v = <<>>
    \/ \E i \in DOMAIN v :
          v[i].name \in {"id", "created_at", "updated_at", "is_deleted",
                         "deleted_at"}

\* SchemaDefinition.validate_fields(v): TRUE when it raises
validate_fields(v) ==
    \/ v = <<>>
    \/ Len(v) # Cardinality({v[i].name : i \in DOMAIN v})
    \/ \E i \in DOMAIN v :
          v[i].name \in {"id", "created_at", "updated_at", "is_deleted",
                         "deleted_at"}

\* SchemaDefinition(name=..., fields=[...]); name and fields are required
\* and always supplied, so both validators run
SchemaDefinition(name, fields) ==
    IF validate_name(name) \/ validate_fields(fields)
    THEN [raised |-> TRUE]
    ELSE [raised |-> FALSE, schema |-> Schema(name, fields, DefaultAuthConfig)]

\* the columns every generated storage type inherits from DynamicModel:
\* IntegerIDMixin, TimestampMixin, AuditMixin, SoftDeleteMixin,
\* MetadataMixin (models/base.py)
SystemFields ==
    {"id", "created_at", "updated_at", "created_by_id", "updated_by_id",
     "is_deleted", "deleted_at", "metadata_json", "tags"}

\* the names a schema is given: a valid one, one that starts with an
\* underscore, one that starts with a digit, one with a blank in it, and
\* the empty name
BadNames ==
    { <<"_", "t", "a", "s", "k">>, <<"1", "t", "a", "s", "k">>,
      <<"t", "a", " ", "s", "k">>, <<>> }

\* a field with neither choices nor a relationship
Plain(name) == FieldKw(name, "string", Absent, Unset, Unset)

\* the fields a schema is given: plain fields under a free name, under each
\* column name of the generated storage type but metadata_json and
\* updated_by_id, choice fields without choices, with an empty and with a
\* filled list, and fields with a relationship_type, a related_schema, both
\* or an empty related_schema
FieldInputs ==
    {Plain(n) : n \in {"title", "id", "created_at", "updated_at", "is_deleted",
                       "deleted_at", "created_by_id", "tags"}}
    \cup {FieldKw("priority", t, c, Unset, Unset) :
            t \in {"choice", "multi_choice"},
            c \in {Absent, ListOf({}), ListOf({"low"})}}
    \cup {FieldKw("owner", "string", Absent, rt, rs) :
            rt \in {Unset, "many_to_one", "many_to_many"},
            rs \in {Unset, "", "User"}}

\* the field lists a schema is given: none, one field, the same name twice
FieldLists ==
    {<<>>, <<Plain("title"), Plain("title")>>}
    \cup {<<kw>> : kw \in FieldInputs}

\* no schema defined yet
NotBuilt == [name |-> <<>>, fields |-> <<>>, raised |-> "none", done |-> FALSE]

BuildInit == built = NotBuilt

\* schema = SchemaDefinition(name=..., fields=[FieldDefinition(...), ...])
\* followed by meta_engine.register_schema(schema), as demo.py does: the
\* first constructor that raises ends it
DefineSchema(name, kws) ==
    LET made == [i \in DOMAIN kws |-> FieldDefinition(kws[i])]
    IN  IF \E i \in DOMAIN made : made[i].raised
        THEN /\ built' = [name |-> name, fields |-> kws,
                          raised |-> "FieldDefinition", done |-> TRUE]
             /\ UNCHANGED regVars
        ELSE LET sd == SchemaDefinition(
                           name, [i \in DOMAIN made |-> made[i].field])
             IN  IF sd.raised
                 THEN /\ built' = [name |-> name, fields |-> kws,
                                   raised |-> "SchemaDefinition",
                                   done |-> TRUE]
                      /\ UNCHANGED regVars
                 ELSE \E r \in {register_schema(engine, sd.schema)} :
                          /\ engine' = r.eng
                          /\ last' = Call("register_schema", name, sd.schema,
                                          r, "None")
                          /\ built' = [name |-> name, fields |-> kws,
                                       raised |-> IF r.raised
                                                  THEN "register_schema"
                                                  ELSE "none",
                                       done |-> TRUE]

BuildNext ==
    \/ \E kws \in FieldLists :
          /\ DefineSchema(Task, kws)
          /\ UNCHANGED <<authVars, routeVars, listVars, sessionVars, crudVars,
                       moreVars>>
    \/ \E name \in BadNames :
          /\ DefineSchema(name, <<Plain("title")>>)
          /\ UNCHANGED <<authVars, routeVars, listVars, sessionVars, crudVars,
                       moreVars>>

----------------------------------------------------------------------------
(* The inventory route of the demo products (app/meta_engine/demo.py) *)

\* the largest stock of a product and the largest quantity_change sent
MaxStock == 3

MaxChange == 2

\* the products stored, and the ids requests name: the last one is unknown
ProductIds == {1, 2}

RequestedIds == ProductIds \cup {3}

\* the failures of the CRUD service under the inventory route
InventoryFaults == {"none", "Exception"}

\* str(e) of the exception the handler caught: starlette formats an
\* HTTPException as its status and its detail
str_exception(exc) ==
    IF exc.type # "HTTPException" THEN exc.detail
    ELSE IF exc.status_code = 404 THEN "404: Product not found"
    ELSE "400: Insufficient inventory"

\* the except clause of update_inventory (ll. 478-479): HTTPException is an
\* Exception, so the ones raised in the try block are caught here as well
ExceptInventory(exc) ==
    IF exc.type = "none" THEN exc
    ELSE HTTPException(500, str_exception(exc))

\* register_demo_custom_routes.update_inventory
update_inventory(products, product_id, quantity_change, fault) ==
    LET found == product_id \in DOMAIN products
        new_quantity ==
            IF found THEN products[product_id].stock_quantity + quantity_change
            ELSE 0
        tried ==
            IF fault # "none" THEN Raise(fault)
            ELSE IF ~found THEN HTTPException(404, "Product not found")
            ELSE IF new_quantity < 0
                 THEN HTTPException(400, "Insufficient inventory")
                 ELSE NoExc
    IN  IF tried.type # "none"
        THEN [exc |-> ExceptInventory(tried), status_code |-> 200,
              products |-> products]
        ELSE [exc |-> NoExc, status_code |-> 200,
              products |->
                  Put(products, product_id,
                      [stock_quantity |-> new_quantity,
                       in_stock       |-> new_quantity > 0])]

NoInventoryRequest == [product_id |-> 0, quantity_change |-> 0, fault |-> "none"]

\* Product rows are created with stock_quantity = 0 and in_stock = True, the
\* defaults of the schema (ll. 87-99)
InventoryInit ==
    inventory =
        [ products |-> [p \in ProductIds |->
                           [stock_quantity |-> 0, in_stock |-> TRUE]],
          before   |-> [p \in ProductIds |->
                           [stock_quantity |-> 0, in_stock |-> TRUE]],
          request  |-> NoInventoryRequest,
          answer   |-> [status_code |-> 0, message |-> ""] ]

\* PUT /api/v1/product/{product_id}/inventory
InventoryRequest(product_id, quantity_change, fault) ==
    /\ product_id \in ProductIds =>
          inventory.products[product_id].stock_quantity + quantity_change
              <= MaxStock
    /\ LET out == update_inventory(inventory.products, product_id,
                                   quantity_change, fault)
       IN  inventory' =
               [ products |-> out.products,
                 before   |-> inventory.products,
                 request  |-> [product_id |-> product_id,
                               quantity_change |-> quantity_change,
                               fault |-> fault],
                 answer   |-> Respond(out, settings.DEBUG) ]
    /\ UNCHANGED <<regVars, authVars, routeVars, listVars, sessionVars,
                   crudVars, buildVars, choiceVars, pageVars, rateVars>>

InventoryNext ==
    \E product_id \in RequestedIds, quantity_change \in (-MaxChange)..MaxChange,
       fault \in InventoryFaults :
        InventoryRequest(product_id, quantity_change, fault)

----------------------------------------------------------------------------
(* Schemas with storage options, registered on the orchestrator *)

\* the schemas registered at most
MaxModels == 2

\* names that differ in letter case, by a trailing "s", and a CamelCase name
TASK == <<"T", "A", "S", "K">>

Tasks == <<"T", "a", "s", "k", "s">>

TaskItem == <<"T", "a", "s", "k", "I", "t", "e", "m">>

\* FieldDefinition(name="owner", field_type=FieldType.STRING,
\* relationship_type=..., related_schema=..., foreign_key=...)
RelationshipField(relationship_type, related_schema, foreign_key) ==
    [Field("owner", <<>>) EXCEPT !.relationship_type = relationship_type,
                                 !.related_schema = related_schema,
                                 !.foreign_key = foreign_key]

\* the schemas registered: Task under every combination of the enable_
\* flags and under an explicit table_name, the other names with the
\* defaults, and Item with a relationship of each kind to each of them,
\* with and without a foreign_key
ModelSchemas ==
    { [Schema(Task, <<Field("title", <<>>)>>, DefaultAuthConfig)
          EXCEPT !.enable_timestamps = t, !.enable_audit = a,
                 !.enable_soft_delete = d] : t, a, d \in BOOLEAN }
    \cup { [Schema(Task, <<Field("title", <<>>)>>, DefaultAuthConfig)
              EXCEPT !.table_name = <<"w", "o", "r", "k">>] }
    \cup { Schema(n, <<Field("title", <<>>)>>, DefaultAuthConfig) :
              n \in {TASK, Tasks, TaskItem} }
    \cup { Schema(Item, <<Field("title", <<>>), RelationshipField(rt, rs, fk)>>,
                  DefaultAuthConfig) :
              rt \in {"many_to_one", "one_to_one", "one_to_many",
                      "many_to_many"},
              rs \in {"Task", "Tasks", "TaskItem"},
              fk \in {"None", "owner_ref"} }

\* meta_engine.register_schema(schema) under a name not yet registered
RegisterModel(schema) ==
    /\ schema.name \notin DOMAIN engine.schemas
    /\ Cardinality(DOMAIN engine.schemas) < MaxModels
    /\ RegisterSchema(schema)

ModelNext == \E schema \in ModelSchemas : RegisterModel(schema)

----------------------------------------------------------------------------
(* The fields of a generated storage type and of a response *)

\* the attributes of a generated model class that are columns: the ones of
\* its bases, the schema's fields and the foreign keys
ModelColumns(model) ==
    model.inherited \cup Range(model.columns)

\* RouteFactory._create_response_model: the names of the response fields
_create_response_model(schema) ==
    {"id"}
    \cup {schema.fields[i].name : i \in DOMAIN schema.fields}
    \cup (IF schema.enable_timestamps
          THEN {"created_at", "updated_at"} ELSE {})
    \cup (IF schema.enable_audit
          THEN {"created_by_id", "updated_by_id"} ELSE {})
    \cup (IF schema.enable_soft_delete
          THEN {"is_deleted", "deleted_at", "deleted_by_id"} ELSE {})

\* RouteFactory._model_to_response: the keys of the dict made of an instance
\* of the model; hasattr holds for a column of the class
_model_to_response(schema, model) ==
    {"id"}
    \cup ({schema.fields[i].name : i \in DOMAIN schema.fields}
             \cap (ModelColumns(model)
                      \cup {r.name : r \in model.relationships}))
    \cup ({"created_at", "updated_at", "created_by_id", "updated_by_id",
           "is_deleted", "deleted_at", "deleted_by_id"}
              \cap ModelColumns(model))

\* the body of a route declared with response_model: the fields of the
\* response model, taken from the dict the handler returns or from their
\* defaults
serialize_response(response_model, response_data) ==
    response_model

----------------------------------------------------------------------------
(* The choice validator of a generated model (model_factory.py) *)

\* the longest list submitted for a multi-choice field
MaxChosen == 2

\* the values a caller writes to a field: None, a str, or a list of str
NoValue == [kind |-> "none", text |-> "", items |-> <<>>]

Str(text) == [kind |-> "str", text |-> text, items |-> <<>>]

List(items) == [kind |-> "list", text |-> "", items |-> items]

\* `if value`: None, the empty str and the empty list are false
ValueTruthy(value) ==
    \/ value.kind = "str" /\ value.text # ""
    \/ value.kind = "list" /\ value.items # <<>>

\* valid_values = [choice['value'] for choice in choices]
valid_values(choices) == choices.items

\* `value in valid_values`: valid_values holds strings, and a list equals
\* none of them
InValidValues(value, values) == value.kind = "str" /\ value.text \in values

\* the validator made by _create_choice_validator: TRUE when it raises
choice_validator(choices, value) ==
    ValueTruthy(value) /\ ~InValidValues(value, valid_values(choices))

\* DynamicModelFactory._create_validation_methods for one field, applied to
\* a value: a relationship field and a field without choices get no choice
\* validator; TRUE when the value is refused
validate_field(field, value) ==
    IF field.relationship_type \notin {"None", ""} THEN FALSE
    ELSE IF field.choices.kind = "list" /\ field.choices.items # {}
    THEN choice_validator(field.choices, value)
    ELSE FALSE

\* the texts submitted: two declared choice values, one that may be
\* undeclared, and the empty text
Texts == {"", "low", "high", "mid"}

ChoiceTexts == {"low", "high"}

RECURSIVE ListsUpTo(_, _)
ListsUpTo(S, n) ==
    IF n = 0 THEN {<<>>}
    ELSE LET shorter == ListsUpTo(S, n - 1)
         IN  shorter \cup {Append(l, x) : l \in shorter, x \in S}

SubmittedValues ==
    {NoValue} \cup {Str(t) : t \in Texts}
    \cup {List(l) : l \in ListsUpTo(Texts \ {""}, MaxChosen)}

\* FieldDefinition(name="priority", field_type=..., choices=[{"value": v}
\* for v in values])
ChoiceField(field_type, values) ==
    [Field("priority", <<>>) EXCEPT !.field_type = field_type,
                                    !.choices = ListOf(values)]

\* single-choice, multi-choice and plain fields with choices declared
ChoiceFields ==
    {ChoiceField(t, v) : t \in {"choice", "multi_choice", "string"},
                         v \in (SUBSET ChoiceTexts) \ {{}}}

NotChecked ==
    [field |-> Field("priority", <<>>), value |-> NoValue, raised |-> FALSE,
     done |-> FALSE]

ChoiceInit == checked = NotChecked

\* instance.priority = value on an instance of the generated model
SetField(field, value) ==
    /\ checked' = [field |-> field, value |-> value,
                   raised |-> validate_field(field, value), done |-> TRUE]
    /\ UNCHANGED <<regVars, authVars, routeVars, listVars, sessionVars,
                   crudVars, buildVars, inventoryVars, pageVars, rateVars>>

ChoiceNext ==
    \E field \in ChoiceFields, value \in SubmittedValues :
        SetField(field, value)

----------------------------------------------------------------------------
(* A list request served while other requests create and delete *)

\* the records created at most, and the largest skip and limit of the list
\* request
MaxPageRecords == 2

MaxPageSkip == 1

MaxPageLimit == 2

\* the dict list_records returns (ll. 167-173), from what the two awaits
\* gave it
list_envelope(records, total, skip, limit) ==
    [ status   |-> 200,
      items    |-> [i \in DOMAIN records |-> records[i].id],
      total    |-> total,
      skip     |-> skip,
      limit    |-> limit,
      has_next |-> skip + limit < total ]

\* no list request is being served
NoListing ==
    [pc |-> "idle", skip |-> 0, limit |-> 1, records |-> <<>>,
     envelope |-> list_envelope(<<>>, 0, 0, 1)]

PageInit == listing = NoListing

\* records = await self.crud_service.list(...) (ll. 155-159): the SELECT
\* sees the rows committed when it runs
AwaitList(skip, limit) ==
    /\ listing.pc \in {"idle", "done"}
    /\ listing' = [listing EXCEPT
                     !.pc = "listed", !.skip = skip, !.limit = limit,
                     !.records = crud_list(store.rows, skip, limit)]
    /\ UNCHANGED <<store, resp, regVars, authVars, routeVars, sessionVars,
                   crudVars, buildVars, inventoryVars, choiceVars,
                   rateVars>>

\* total = await self.crud_service.count(...) (ll. 161-165), a second
\* SELECT, and the return of the envelope
AwaitCount ==
    /\ listing.pc = "listed"
    /\ listing' = [listing EXCEPT
                     !.pc = "done",
                     !.envelope = list_envelope(listing.records,
                                                crud_count(store.rows),
                                                listing.skip, listing.limit)]
    /\ UNCHANGED <<store, resp, regVars, authVars, routeVars, sessionVars,
                   crudVars, buildVars, inventoryVars, choiceVars,
                   rateVars>>

\* a create request of another client, committed
PageCreate ==
    /\ store.next_id <= MaxPageRecords
    /\ store' = crud_create(store, CrudFields, [f \in {"title"} |-> "a"], PyNone)
    /\ UNCHANGED <<resp, listing, regVars, authVars, routeVars, sessionVars,
                   crudVars, buildVars, inventoryVars, choiceVars,
                   rateVars>>

\* a delete request of another client, committed
PageDelete(record_id, hard_delete) ==
    /\ store' = crud_delete(store, record_id, PyNone, hard_delete)
    /\ store' # store
    /\ UNCHANGED <<resp, listing, regVars, authVars, routeVars, sessionVars,
                   crudVars, buildVars, inventoryVars, choiceVars,
                   rateVars>>

PageNext ==
    \/ \E skip \in 0..MaxPageSkip, limit \in 1..MaxPageLimit :
          AwaitList(skip, limit)
    \/ AwaitCount
    \/ PageCreate
    \/ \E id \in 1..MaxPageRecords, hard \in BOOLEAN : PageDelete(id, hard)

----------------------------------------------------------------------------
(* RateLimitMiddleware (app/main.py) *)

\* the limit and the window of the middleware, scaled down from
\* calls=100, period=60 (main.py:235)
calls == 2

period == 2

\* the last reading of the clock and the number of requests sent
MaxTime == 4

MaxLogged == 5

\* request.client.host of the requests
ClientIps == {"10.0.0.1", "10.0.0.2"}

\* [req_time for req_time in requests if req_time > current_time - period]
Recent(requests, current_time) ==
    SelectSeq(requests, LAMBDA req_time : req_time > current_time - period)

\* dispatch with `>` in place of `>=` in the test of the limit
dispatch_allows_one_more(clients, client_ip, current_time) ==
    LET cleaned == [ip \in {i \in DOMAIN clients :
                               Recent(clients[i], current_time) # <<>>}
                       |-> clients[ip]]
    IN  IF client_ip \in DOMAIN cleaned
        THEN LET recent_requests == Recent(cleaned[client_ip], current_time)
             IN  IF Len(recent_requests) > calls
                 THEN [status_code |-> 429, clients |-> cleaned]
                 ELSE [status_code |-> 200,
                       clients |-> Put(cleaned, client_ip,
                                       Append(recent_requests, current_time))]
        ELSE [status_code |-> 200,
              clients |-> Put(cleaned, client_ip, <<current_time>>)]

\* RateLimitMiddleware.dispatch: the clients without a request in the window
\* are dropped, then the request is refused with 429 or its time recorded
\* and the request passed on (200 stands for the answer of call_next)
dispatch(clients, client_ip, current_time) ==
    LET cleaned == [ip \in {i \in DOMAIN clients :
                               Recent(clients[i], current_time) # <<>>}
                       |-> clients[ip]]
    IN  IF client_ip \in DOMAIN cleaned
        THEN LET recent_requests == Recent(cleaned[client_ip], current_time)
             IN  IF Len(recent_requests) >= calls
                 THEN [status_code |-> 429, clients |-> cleaned]
                 ELSE [status_code |-> 200,
                       clients |-> Put(cleaned, client_ip,
                                       Append(recent_requests, current_time))]
        ELSE [status_code |-> 200,
              clients |-> Put(cleaned, client_ip, <<current_time>>)]

\* RateLimitMiddleware.__init__: no client yet; the clock at 0 and the
\* record of the requests answered so far
RateInit == limiter = [clients |-> EmptyDict, now |-> 0, log |-> <<>>]

\* time.time() moves on
Tick ==
    /\ limiter.now < MaxTime
    /\ limiter' = [limiter EXCEPT !.now = @ + 1]
    /\ UNCHANGED <<regVars, authVars, routeVars, listVars, sessionVars,
                   crudVars, buildVars, inventoryVars, choiceVars, pageVars>>

\* a request of a client goes through the middleware
RateRequest(client_ip) ==
    /\ Len(limiter.log) < MaxLogged
    /\ LET out == dispatch(limiter.clients, client_ip, limiter.now)
       IN  limiter' = [limiter EXCEPT
                         !.clients = out.clients,
                         !.log = Append(@, [client_ip   |-> client_ip,
                                            time        |-> limiter.now,
                                            status_code |-> out.status_code])]
    /\ UNCHANGED <<regVars, authVars, routeVars, listVars, sessionVars,
                   crudVars, buildVars, inventoryVars, choiceVars, pageVars>>

RateNext ==
    \/ Tick
    \/ \E client_ip \in ClientIps : RateRequest(client_ip)

----------------------------------------------------------------------------
(* The specifications *)

\* the state of the demo routes, the middleware and the model factory
MoreInit ==
    /\ InventoryInit
    /\ ChoiceInit
    /\ PageInit
    /\ RateInit


\* the state outside the orchestrator, the route factory and the list route
ExtInit ==
    /\ SessionInit
    /\ CrudIdle
    /\ BuildInit
    /\ MoreInit

\* the orchestrator under register, remove, update and custom-route calls
Init ==
    /\ RegInit
    /\ rf = RfIdle
    /\ app = AppIdle
    /\ ListInit
    /\ ExtInit

Next == RegNext

Spec == Init /\ [][Next]_vars

\* the construction of a RouteFactory for every auth_config
InitAuth ==
    /\ RegInit
    /\ AuthInit
    /\ app = AppIdle
    /\ ListInit
    /\ ExtInit

SpecAuth == InitAuth /\ [][AuthNext]_vars

\* requests to one schema's router
InitRoute ==
    /\ RegInit
    /\ rf = RfIdle
    /\ RouteInit
    /\ ListInit
    /\ ExtInit

SpecRoute == InitRoute /\ [][RouteNext]_vars

\* the list route of one schema
SpecList == Init /\ [][ListNext]_vars

\* requests served through get_db_session
SpecSession == Init /\ [][SessionNext]_vars

\* requests to the generated routes of one schema, in either mode
InitCrud ==
    /\ RegInit
    /\ rf = RfIdle
    /\ app = AppIdle
    /\ ListInit
    /\ SessionInit
    /\ CrudInit
    /\ BuildInit
    /\ MoreInit

SpecCrud == InitCrud /\ [][CrudNext]_vars

\* schemas defined and registered, one after the other
SpecBuild == Init /\ [][BuildNext]_vars

\* requests to the inventory route of the demo products
SpecInventory == Init /\ [][InventoryNext]_vars

\* schemas with storage options registered on the orchestrator
SpecModel == Init /\ [][ModelNext]_vars

\* values written to a choice field of a generated model
SpecChoice == Init /\ [][ChoiceNext]_vars

\* a list request interleaved with the creates and deletes of other requests
SpecPage == Init /\ [][PageNext]_vars

\* requests of several clients through the rate limiter, as time passes
SpecRate == Init /\ [][RateNext]_vars

----------------------------------------------------------------------------
(* The claims about the orchestrator, under Spec *)

\* a name is registered when list_schemas() holds it
Registered(eng, name) == name \in DOMAIN eng.schemas

\* what the registry shows of itself: the five maps keyed by schema name
RegistryView(eng) ==
    [ schemas         |-> eng.schemas,
      models          |-> eng.models,
      crud_services   |-> eng.crud_services,
      routers         |-> eng.routers,
      route_factories |-> eng.route_factories ]

FieldNames(schema) == [i \in DOMAIN schema.fields |-> schema.fields[i].name]

\* the custom routes registered on the schemas in `names`
RECURSIVE CustomRouteCount(_, _)
CustomRouteCount(eng, names) ==
    IF names = {} THEN 0
    ELSE LET n == CHOOSE x \in names : TRUE
         IN  Cardinality(DOMAIN get_schema_custom_routes(eng, n))
             + CustomRouteCount(eng, names \ {n})

\* C1: a register_schema call that raises leaves the registry exactly as it
\* was before the call: the five maps, and with them every accessor and
\* get_system_stats, are unchanged.
C1_FailedRegisterChangesNothing ==
    [][ (last'.op = "register_schema" /\ last'.raised)
            => /\ RegistryView(engine') = RegistryView(engine)
               /\ get_system_stats(engine') = get_system_stats(engine) ]_vars

\* C2: in every reachable state total_endpoints is 6 times the number of
\* registered schemas plus the number of custom routes registered on them.
C2_TotalEndpointsCountsCustomRoutes ==
    get_system_stats(engine).total_endpoints
        = 6 * Cardinality(DOMAIN engine.schemas)
          + CustomRouteCount(engine, DOMAIN engine.schemas)

\* C3: remove_schema(name) returns true exactly when name was registered, and
\* then no accessor shows anything of the schema, its custom routes included;
\* for a name that is not registered it returns false, raises nothing and
\* changes nothing.
C3_RemoveLeavesNoArtifact ==
    [][ last'.op = "remove_schema"
            => LET n == last'.name
               IN  /\ (last'.ret = "True") <=> Registered(engine, n)
                   /\ last'.ret = "True"
                        => /\ get_schema(engine', n) = None
                           /\ get_model(engine', n) = None
                           /\ get_crud_service(engine', n) = None
                           /\ get_router(engine', n) = None
                           /\ get_schema_info(engine', n) = None
                           /\ get_schema_custom_routes(engine', n) = EmptyDict
                   /\ ~Registered(engine, n)
                        => /\ last'.ret = "False"
                           /\ ~last'.raised
                           /\ engine' = engine ]_vars

\* C4: register_custom_route for a name that is not registered at the time of
\* the call raises and adds no route.
C4_CustomRouteNeedsRegisteredSchema ==
    [][ (last'.op = "register_custom_route" /\ ~Registered(engine, last'.name))
            => /\ last'.raised
               /\ engine' = engine ]_vars

\* the name holds all four artifacts
FullyRegistered(eng, name) ==
    /\ name \in DOMAIN eng.schemas
    /\ name \in DOMAIN eng.models
    /\ name \in DOMAIN eng.crud_services
    /\ name \in DOMAIN eng.routers

ArtifactsOf(eng, name) ==
    <<get_schema(eng, name), get_model(eng, name),
      get_crud_service(eng, name), get_router(eng, name)>>

\* C5: update_schema on a name registered with all four artifacts either
\* returns normally with the new schema and all four artifacts registered, or
\* fails with the previous schema and all of its artifacts still registered.
C5_UpdateIsAtomic ==
    [][ (last'.op = "update_schema" /\ FullyRegistered(engine, last'.name))
            => LET n == last'.name
               IN  IF last'.raised
                   THEN /\ FullyRegistered(engine', n)
                        /\ ArtifactsOf(engine', n) = ArtifactsOf(engine, n)
                   ELSE /\ FullyRegistered(engine', n)
                        /\ get_schema(engine', n) = last'.schema ]_vars

\* C6: after a register_schema or update_schema call that returned normally,
\* get_schema_info reports exactly the fields of the schema just given and the
\* model returned by get_model is built from those fields.
C6_ArtifactsReflectNewSchema ==
    (last.op \in {"register_schema", "update_schema"} /\ ~last.raised)
        => /\ get_schema_info(engine, last.name).field_count
                = Len(last.schema.fields)
           /\ get_schema_info(engine, last.name).fields
                = FieldNames(last.schema)
           /\ get_model(engine, last.name).columns = FieldNames(last.schema)

----------------------------------------------------------------------------
(* The claims about the authentication of the generated routes, under
   SpecAuth *)

\* the route name is listed under the key
Listed(v, route_name) == v.kind = "list" /\ route_name \in v.items

\* the value of a flag: the one given, or else the one that
\* SchemaDefinition.auth_config documents as its default
FlagSet(auth_config, key) ==
    IF auth_config[key] = "absent"
    THEN DefaultAuthConfig[key] = "True"
    ELSE auth_config[key] = "True"

\* the precedence the claim states, first matching rule wins
AuthRequired(auth_config, op) ==
    CASE Listed(auth_config.public_routes, op) -> FALSE
      [] ~Listed(auth_config.public_routes, op)
         /\ Listed(auth_config.protected_routes, op) -> TRUE
      [] OTHER ->
           IF FlagSet(auth_config, "read_public")
              /\ op \in {"list", "get", "count"}
           THEN FALSE
           ELSE IF FlagSet(auth_config, "write_protected")
                   /\ op \in {"create", "update", "delete"}
                THEN TRUE
                ELSE FlagSet(auth_config, "require_auth")

RequiresAuth(route) == route.auth = "get_current_user"

\* C7: every generated route requires authentication exactly when the first
\* matching rule of the precedence public_routes, protected_routes,
\* read_public, write_protected, require_auth says so.
C7_AuthFollowsPrecedence ==
    \A i \in DOMAIN rf.routes :
        /\ rf.routes[i].auth \in {"get_current_user", "get_optional_user"}
        /\ RequiresAuth(rf.routes[i])
             <=> AuthRequired(rf.auth_config, rf.routes[i].endpoint)

\* C7 witness: all six routes are built for a schema with read_public true
\* and "get" under protected_routes; get requires authentication while list
\* is public
C7_Witness ==
    /\ Len(rf.routes) = 6
    /\ rf.auth_config.read_public = "True"
    /\ Listed(rf.auth_config.protected_routes, "get")
    /\ ~Listed(rf.auth_config.public_routes, "get")
    /\ rf.auth_config.public_routes = ListOf({})
    /\ rf.auth_config.protected_routes = ListOf({"get"})
    /\ RequiresAuth(rf.routes[3])
    /\ ~RequiresAuth(rf.routes[2])

\* C8 as stated: a route whose operation is listed under protected_routes
\* always requires authentication.
C8_ProtectedAlwaysRequiresAuth ==
    \A i \in DOMAIN rf.routes :
        Listed(rf.auth_config.protected_routes, rf.routes[i].endpoint)
            => RequiresAuth(rf.routes[i])

\* C8 amended: a route whose operation is listed under protected_routes and
\* not under public_routes requires authentication, whatever read_public,
\* write_protected and require_auth are.
C8_ProtectedNotPublicRequiresAuth ==
    \A i \in DOMAIN rf.routes :
        ( /\ Listed(rf.auth_config.protected_routes, rf.routes[i].endpoint)
          /\ ~Listed(rf.auth_config.public_routes, rf.routes[i].endpoint) )
            => RequiresAuth(rf.routes[i])

\* C8 witness: a read operation under protected_routes only, with every flag
\* set towards anonymous access, requires authentication
C8_Witness ==
    \E i \in DOMAIN rf.routes :
        /\ rf.routes[i].endpoint = "list"
        /\ Listed(rf.auth_config.protected_routes, "list")
        /\ ~Listed(rf.auth_config.public_routes, "list")
        /\ rf.auth_config.read_public = "True"
        /\ rf.auth_config.write_protected = "False"
        /\ rf.auth_config.require_auth = "False"
        /\ RequiresAuth(rf.routes[i])

----------------------------------------------------------------------------
(* The claim about the count path, under SpecRoute *)

\* C9: a GET request to /count is handed to the count operation and answered
\* with 200; the get-by-id route never takes it.
C9_CountPathReachesCount ==
    (app.request = [method |-> "GET", path |-> <<"count">>])
        => /\ app.response.endpoint = "count"
           /\ app.response.status = 200

----------------------------------------------------------------------------
(* The claim about pagination, under SpecList *)

\* the records that are not deleted
Live(rows) == {i \in DOMAIN rows : ~rows[i].is_deleted}

\* C10: a list request with skip >= 0 and limit in 1..1000 over N records
\* that are not deleted answers min(limit, max(0, N - skip)) items with
\* total = N, and has_next exactly when skip + limit < total.
C10_PageSizeTotalHasNext ==
    [][ resp' # resp
            => LET N == Cardinality(Live(store'.rows))
               IN  resp'.status = 200
                     => /\ resp'.skip >= 0
                        /\ resp'.limit \in 1..LimitCeiling
                        /\ Len(resp'.items)
                             = Min(resp'.limit, Max(0, N - resp'.skip))
                        /\ resp'.total = N
                        /\ resp'.has_next
                             <=> (resp'.skip + resp'.limit < resp'.total) ]_vars

\* C10 witness: the last page, cut short, of a table that also holds a
\* soft-deleted record
C10_Witness ==
    /\ resp # None
    /\ resp.status = 200
    /\ resp.skip > 0
    /\ Len(resp.items) > 0
    /\ Len(resp.items) < resp.limit
    /\ ~resp.has_next
    /\ resp.total = Cardinality(Live(store.rows))
    /\ \E i \in DOMAIN store.rows : store.rows[i].is_deleted

----------------------------------------------------------------------------
(* The claims about the session dependency, under SpecSession *)

\* C11: a session obtained from get_db_session is committed only if the
\* request body finished without raising; when the body or the commit raised
\* its transaction ends rolled back and none of its changes reach the
\* database; it is closed exactly once on every exit path, and not before
\* the body ends.
C11_CommitRollbackClose ==
    \A r \in Requests :
        LET q == sessions[r]
        IN  /\ q.pc = "body" =>
                  /\ q.session.closes = 0
                  /\ q.session.commits = 0
                  /\ ~q.session.closed
            /\ (q.pc = "done" /\ q.session # None) =>
                  /\ q.session.commits > 0 => q.thrown = "none"
                  /\ q.session.tx = "committed" =>
                        q.thrown = "none" /\ ~q.commit_raised
                  /\ (q.thrown # "none" \/ q.commit_raised) =>
                        /\ q.session.tx = "rolled_back"
                        /\ q.applied = 0
                  /\ (q.thrown \in {"SQLAlchemyError", "HTTPException"}
                        \/ q.commit_raised) => q.session.rollbacks = 1
                  /\ q.session.closes = 1
                  /\ q.session.closed

\* one request failed after writing and was rolled back and closed; another
\* one committed its changes
C11_Witness ==
    \E r1, r2 \in Requests :
        /\ sessions[r1].pc = "done"
        /\ sessions[r1].session # None
        /\ sessions[r1].thrown = "HTTPException"
        /\ sessions[r1].session.pending > 0
        /\ sessions[r1].session.tx = "rolled_back"
        /\ sessions[r1].session.closes = 1
        /\ sessions[r2].pc = "done"
        /\ sessions[r2].session # None
        /\ sessions[r2].session.tx = "committed"
        /\ sessions[r2].applied > 0
        /\ db.committed > 0

----------------------------------------------------------------------------
(* The claims about the generated routes, under SpecCrud *)

\* the request served last passed the validation of its body, so that the
\* data-access service was called
Validated ==
    /\ reply.op # "none"
    /\ reply.op = "create" =>
          ParseBody(_create_request_model(CrudFields), reply.payload).valid
    /\ reply.op = "update" =>
          ParseBody(_create_update_model(CrudFields), reply.payload).valid

\* C12: in the generated routes a CRUDException raised by the data-access
\* service is answered with a 4xx status; any other exception is answered
\* with a 5xx status, and the message of that answer carries the internal
\* detail in development mode (DEBUG) and withholds it in production mode.
C12_ErrorsAnsweredByKind ==
    Validated =>
        /\ reply.fault = "CRUDException" => reply.status_code \in 400..499
        /\ reply.fault = "Exception" =>
              /\ reply.status_code \in 500..599
              /\ settings.DEBUG => reply.message = ExcText("Exception")
              /\ ~settings.DEBUG => reply.message # ExcText("Exception")

\* C13: when the data-access service finds no record under the identifier
\* (get and update return None, delete returns False), the get, update and
\* delete routes answer 404, never 400 or 500, and the table is left as it
\* was.
C13_NotFoundIs404 ==
    [][ ( /\ reply'.op \in {"get", "update", "delete"}
          /\ Validated'
          /\ reply'.fault = "none"
          /\ crud_get(store.rows, reply'.record_id, FALSE) = <<>> )
        => ( /\ reply'.status_code = 404
             /\ store' = store ) ]_vars

\* an update was answered 404 while the table holds a record
C13_Witness ==
    /\ reply.op = "update"
    /\ reply.fault = "none"
    /\ reply.status_code = 404
    /\ store.rows # <<>>

\* the identifiers of the records a default list returns
ListedIds(st) ==
    {crud_list(st.rows, 0, LimitCeiling)[i].id :
        i \in DOMAIN crud_list(st.rows, 0, LimitCeiling)}

\* a record that only a get including deleted records returns
SoftDeleted(st, record_id) ==
    /\ crud_get(st.rows, record_id, FALSE) = <<>>
    /\ crud_get(st.rows, record_id, TRUE) # <<>>
    /\ record_id \notin ListedIds(st)

\* a record that nothing returns
Gone(st, record_id) ==
    /\ crud_get(st.rows, record_id, FALSE) = <<>>
    /\ crud_get(st.rows, record_id, TRUE) = <<>>
    /\ record_id \notin ListedIds(st)
    /\ \A i \in DOMAIN st.rows : st.rows[i].id # record_id

\* C14: a delete answered 204 takes the record out of the default list and
\* count; after a soft delete a get that includes deleted records still
\* returns it, after a hard delete no get, list or count returns it under
\* any flag; and no later request brings a deleted record back.
C14_SoftAndHardDelete ==
    [][ /\ (reply'.op = "delete" /\ reply'.status_code = 204) =>
              /\ crud_count(store'.rows) = crud_count(store.rows) - 1
              /\ IF reply'.hard_delete
                 THEN Gone(store', reply'.record_id)
                 ELSE SoftDeleted(store', reply'.record_id)
        /\ \A id \in 1..(MaxCrudRecords + 1) :
              /\ SoftDeleted(store, id) =>
                    SoftDeleted(store', id) \/ Gone(store', id)
              /\ (id < store.next_id /\ Gone(store, id)) => Gone(store', id)
      ]_vars

\* a record was soft-deleted and then asked for: the get answers 404
C14_Witness ==
    /\ reply.op = "get"
    /\ reply.fault = "none"
    /\ reply.status_code = 404
    /\ SoftDeleted(store, reply.record_id)
    /\ crud_count(store.rows) = 0

\* the schema fields marked required that a request body leaves out
OmittedRequired(payload) ==
    {f \in FieldNamesOf(CrudFields) :
        FieldNamed(CrudFields, f).required /\ f \notin DOMAIN payload}

\* C15: a create request that omits a schema field marked required is
\* rejected with a validation error (422) and creates no record: the table,
\* and with it every list and count result, is unchanged.
C15_RequiredFieldsMustBeSupplied ==
    [][ (reply'.op = "create" /\ OmittedRequired(reply'.payload) # {})
        => ( /\ reply'.status_code = 422
             /\ store' = store
             /\ crud_count(store'.rows) = crud_count(store.rows) ) ]_vars

\* the stored record of an identifier that a default get returns
Stored(st, record_id) == crud_get(st.rows, record_id, FALSE)[1]

\* C16: an update request hands exactly the fields of its body to the
\* data-access update: in the updated record every field of the body has
\* the body's value, and every other user field keeps its stored value
\* (neither None nor the schema default takes its place); every other
\* record is left as it was.
C16_UpdateKeepsAbsentFields ==
    [][ (reply'.op = "update" /\ reply'.status_code = 200) =>
          /\ DOMAIN dict_exclude_unset(
                 ParseBody(_create_update_model(CrudFields), reply'.payload))
               = DOMAIN reply'.payload
          /\ \A f \in FieldNamesOf(CrudFields) :
                Stored(store', reply'.record_id).data[f] =
                    IF f \in DOMAIN reply'.payload
                    THEN reply'.payload[f]
                    ELSE Stored(store, reply'.record_id).data[f]
          /\ Len(store'.rows) = Len(store.rows)
          /\ \A i \in DOMAIN store.rows :
                store.rows[i].id # reply'.record_id =>
                    store'.rows[i] = store.rows[i]
      ]_vars

\* a record created with a status of its own was updated with a body that
\* names the title only
C16_Witness ==
    /\ reply.op = "update"
    /\ reply.status_code = 200
    /\ DOMAIN reply.payload = {"title"}
    /\ Stored(store, reply.record_id).data["title"] = "b"
    /\ Stored(store, reply.record_id).data["status"] = "a"

----------------------------------------------------------------------------
(* The claims about the construction of schemas, under SpecBuild *)

NamesIn(fields) == {fields[i].name : i \in DOMAIN fields}

ReservedNames == {"id", "created_at", "updated_at", "is_deleted", "deleted_at"}

\* a name that is no identifier, or starts with an underscore
BadName(name) ==
    \/ name = <<>>
    \/ name[1] \in Digits \cup {"_"}
    \/ \E i \in DOMAIN name : ~IsCased(name[i]) /\ name[i] \notin Digits \cup {"_"}

\* a name and a field list the construction is to refuse
Malformed(name, fields) ==
    \/ BadName(name)
    \/ fields = <<>>
    \/ \E i, j \in DOMAIN fields : i # j /\ fields[i].name = fields[j].name
    \/ NamesIn(fields) \cap ReservedNames # {}

\* C17: constructing a SchemaDefinition raises when its name is no valid
\* identifier or starts with an underscore, when it has no field, when two
\* fields share a name, or when a field is named id, created_at, updated_at,
\* is_deleted or deleted_at; and no such schema is ever in the registry.
C17_MalformedSchemaNeverBuilt ==
    /\ ( /\ built.done
         /\ built.raised # "FieldDefinition"
         /\ Malformed(built.name, built.fields) )
       => built.raised = "SchemaDefinition"
    /\ \A n \in DOMAIN engine.schemas :
          ~Malformed(engine.schemas[n].name, engine.schemas[n].fields)

\* with a schema registered, a schema with the same field name twice was
\* refused
C17_Witness ==
    /\ built.done
    /\ built.raised = "SchemaDefinition"
    /\ Len(built.fields) = 2
    /\ built.fields[1].name = built.fields[2].name
    /\ ~BadName(built.name)
    /\ DOMAIN engine.schemas # {}

\* C18: in every registered schema the user field names are disjoint from
\* the column names of the storage type generated for it (id, created_at,
\* updated_at, created_by_id, updated_by_id, is_deleted, deleted_at,
\* metadata_json, tags).
C18_UserFieldsDisjointFromSystemFields ==
    \A n \in DOMAIN engine.schemas :
        NamesIn(engine.schemas[n].fields) \cap SystemFields = {}

\* C19: constructing a FieldDefinition of type choice or multi_choice raises
\* unless a non-empty choices list is supplied, when choices is empty and
\* when it is left out.
C19_ChoiceFieldNeedsChoices ==
    ( /\ built.done
      /\ \E i \in DOMAIN built.fields :
            /\ built.fields[i].field_type \in {"choice", "multi_choice"}
            /\ built.fields[i].choices \in {Absent, ListOf({})} )
    => built.raised = "FieldDefinition"

\* relationship_type and related_schema are not given together
HalfRelationship(kw) ==
    (kw.relationship_type # Unset) # (kw.related_schema \notin {Unset, ""})

\* C20: constructing a FieldDefinition raises when it has a relationship_type
\* and no related_schema, and when it has a related_schema and no
\* relationship_type; every relationship field of a registered schema names
\* its related schema.
C20_RelationshipKindAndSchemaTogether ==
    /\ ( /\ built.done
         /\ \E i \in DOMAIN built.fields : HalfRelationship(built.fields[i]) )
       => built.raised = "FieldDefinition"
    /\ \A n \in DOMAIN engine.schemas :
          \A i \in DOMAIN engine.schemas[n].fields :
              Truthy(engine.schemas[n].fields[i].relationship_type)
                 => Truthy(engine.schemas[n].fields[i].related_schema)

\* the last inventory request named a stored product and a quantity change
\* below minus its stock, and the CRUD service did not fail
WouldGoNegative ==
    /\ inventory.request.product_id \in ProductIds
    /\ inventory.request.fault = "none"
    /\ inventory.before[inventory.request.product_id].stock_quantity
           + inventory.request.quantity_change < 0

\* C21: a quantity change that would make the stock negative is answered
\* with a 4xx status and leaves the stored stock as it was
C21_NegativeStockIsClientFault ==
    WouldGoNegative =>
        /\ inventory.answer.status_code \in 400..499
        /\ inventory.products = inventory.before

\* the characters of the related_schema values the fields are given
CharsOf(related_schema) ==
    IF related_schema = "User" THEN <<"U", "s", "e", "r">> ELSE <<>>

\* the field names a relationship to a schema the registry does not hold
DanglingRelationship(kw, eng) ==
    /\ Truthy(kw.relationship_type) /\ kw.relationship_type # Unset
    /\ Truthy(kw.related_schema) /\ kw.related_schema # Unset
    /\ \A n \in DOMAIN eng.schemas : n # CharsOf(kw.related_schema)

\* C22: registering a schema with a relationship field whose related schema
\* is not registered raises, and the registry is what it was before the call
C22_UnregisteredRelatedSchemaFails ==
    [][ ( /\ built'.done
          /\ built'.raised \notin {"FieldDefinition", "SchemaDefinition"}
          /\ \E i \in DOMAIN built'.fields :
                DanglingRelationship(built'.fields[i], engine) )
        => /\ built'.raised = "register_schema"
           /\ engine' = engine ]_vars

\* the relationship fields of a registered schema that get a foreign key
ForeignKeyFields(n) ==
    {i \in DOMAIN engine.schemas[n].fields :
        HasForeignKey(engine.schemas[n].fields[i])}

\* the foreign-key column the model of schema n holds for a field
ForeignKeyOf(n, field) ==
    {fk \in engine.models[n].foreign_keys :
        fk.name = IF field.foreign_key \notin {"None", ""}
                  THEN <<field.foreign_key>> ELSE <<field.name, "_id">>}

\* C23: the foreign-key column of a many-to-one or one-to-one field is named
\* by foreign_key when given and by the field name followed by "_id"
\* otherwise, and it references the id column of the table generated for
\* the related schema
C23_ForeignKeyReferencesRelatedTable ==
    \A n \in DOMAIN engine.models :
        \A i \in ForeignKeyFields(n) :
            LET field   == engine.schemas[n].fields[i]
                related == Chars(field.related_schema)
            IN  /\ ForeignKeyOf(n, field) # {}
                /\ related \in DOMAIN engine.models =>
                      \A fk \in ForeignKeyOf(n, field) :
                          /\ fk.references.column = "id"
                          /\ fk.references.table
                                 = engine.models[related].tablename

TimestampFields == {"created_at", "updated_at"}

AuditFields == {"created_by_id", "updated_by_id"}

SoftDeleteFields == {"is_deleted", "deleted_at"}

\* the fields are all among S when the flag is set and none is when not
ExactlyWhen(flag, fields, S) ==
    IF flag THEN fields \subseteq S ELSE fields \cap S = {}

\* the registered schemas whose model was generated from them
OwnModel(n) ==
    /\ n \in DOMAIN engine.models
    /\ engine.models[n].schema_name = n
    /\ engine.model_factory.schema_cache[engine.models[n].name]
           = engine.schemas[n]

\* C24: the storage type and the responses of a schema hold the timestamp,
\* audit and soft-delete fields exactly when the schema's enable_timestamps,
\* enable_audit and enable_soft_delete are set
C24_SystemFieldsFollowFlags ==
    \A n \in DOMAIN engine.schemas :
        OwnModel(n) =>
            LET schema   == engine.schemas[n]
                columns  == ModelColumns(engine.models[n])
                response == serialize_response(
                                _create_response_model(schema),
                                _model_to_response(schema, engine.models[n]))
            IN  /\ ExactlyWhen(schema.enable_timestamps, TimestampFields,
                               columns)
                /\ ExactlyWhen(schema.enable_audit, AuditFields, columns)
                /\ ExactlyWhen(schema.enable_soft_delete, SoftDeleteFields,
                               columns)
                /\ ExactlyWhen(schema.enable_timestamps, TimestampFields,
                               response)
                /\ ExactlyWhen(schema.enable_audit, AuditFields, response)
                /\ ExactlyWhen(schema.enable_soft_delete, SoftDeleteFields,
                               response)

\* the value is what the field's kind takes: a str for a single-choice
\* field, a non-empty list for a multi-choice field
Submitted(field, value) ==
    \/ field.field_type = "choice" /\ value.kind = "str" /\ value.text # ""
    \/ /\ field.field_type = "multi_choice"
       /\ value.kind = "list" /\ value.items # <<>>

\* the value belongs to the declared choice values
Belongs(field, value) ==
    IF field.field_type = "choice"
    THEN value.text \in field.choices.items
    ELSE \A i \in DOMAIN value.items : value.items[i] \in field.choices.items

\* C25: the choice validator accepts a non-empty value exactly when it
\* belongs to the declared choice values: a single-choice value is one of
\* them, every element of a multi-choice list is one of them
C25_ChoiceValidatorAcceptsDeclared ==
    (checked.done /\ Submitted(checked.field, checked.value))
        => (~checked.raised <=> Belongs(checked.field, checked.value))

\* a request path that a path template stands for: a parameter is given
\* the record id 7
PathOf(template) ==
    [i \in DOMAIN template |->
        IF template[i].param THEN "7" ELSE template[i].text]

\* C26: the router of a registered schema holds 6 routes and one more for
\* every entry of get_schema_custom_routes, and a request with the method
\* and path of an entry is dispatched to the handler recorded in the entry
C26_CustomRoutesMatchRouter ==
    \A n \in DOMAIN engine.schemas \cap DOMAIN engine.routers :
        LET custom == get_schema_custom_routes(engine, n)
        IN  /\ Len(engine.routers[n]) = 6 + Cardinality(DOMAIN custom)
            /\ \A key \in DOMAIN custom :
                  Dispatch(engine.routers[n], key[1], PathOf(key[2])).endpoint
                      = custom[key]

\* the five maps of the orchestrator have one key set, and under each key
\* the CRUD service and the route factory hold the schema and the model
\* that schemas and models hold
MapsAgree(eng) ==
    /\ DOMAIN eng.models = DOMAIN eng.schemas
    /\ DOMAIN eng.crud_services = DOMAIN eng.schemas
    /\ DOMAIN eng.routers = DOMAIN eng.schemas
    /\ DOMAIN eng.route_factories = DOMAIN eng.schemas
    /\ \A n \in DOMAIN eng.schemas :
          /\ eng.crud_services[n].schema = eng.schemas[n]
          /\ eng.crud_services[n].model = eng.models[n]
          /\ eng.route_factories[n].schema = eng.schemas[n]
          /\ eng.route_factories[n].crud_service = eng.crud_services[n]

\* C27: a register_schema, remove_schema or update_schema call that returns
\* normally takes a state in which the five maps agree to a state in which
\* they agree, so that they agree after every sequence of such calls
C27_MapsKeepOneKeySet ==
    [][ ( /\ MapsAgree(engine)
          /\ last'.op \in {"register_schema", "remove_schema", "update_schema"}
          /\ ~last'.raised )
        => MapsAgree(engine') ]_vars

\* the names registered with a model
WithModel == {n \in DOMAIN engine.schemas : get_model(engine, n) # None}

\* C28: two registered schemas with different names have different model
\* classes, mapped to different tables, each built from its own schema
C28_DistinctNamesDistinctModels ==
    \A n1 \in WithModel : \A n2 \in WithModel :
        n1 # n2 =>
            /\ get_model(engine, n1) # get_model(engine, n2)
            /\ get_model(engine, n1).tablename # get_model(engine, n2).tablename
            /\ get_model(engine, n1).schema_name = n1
            /\ get_model(engine, n2).schema_name = n2

\* C29: the envelope of a list request served among concurrent creates and
\* deletes describes one snapshot: it holds min(limit, max(0, total - skip))
\* items, and has_next is false only when no record lies beyond the items
C29_ListEnvelopeIsOneSnapshot ==
    listing.pc = "done" =>
        LET env == listing.envelope
        IN  /\ Len(env.items) = Min(env.limit, Max(0, env.total - env.skip))
            /\ ~env.has_next => env.skip + Len(env.items) >= env.total

\* the requests of a client among the first n answered that were let
\* through at a time after `since` and up to `until`
AdmittedIn(client_ip, n, since, until) ==
    {j \in 1..n :
        /\ limiter.log[j].client_ip = client_ip
        /\ limiter.log[j].status_code # 429
        /\ limiter.log[j].time > since
        /\ limiter.log[j].time <= until}

\* C30: the middleware lets through at most `calls` requests of a client in
\* any window of length `period`, and answers a request with 429 exactly
\* when `calls` requests of that client were let through within the last
\* `period`: refused requests and other clients' requests do not count
C30_RateLimitPerClient ==
    /\ \A client_ip \in ClientIps : \A t \in 0..limiter.now :
          Cardinality(AdmittedIn(client_ip, Len(limiter.log), t - period, t))
              <= calls
    /\ \A i \in DOMAIN limiter.log :
          limiter.log[i].status_code = 429
              <=> Cardinality(AdmittedIn(limiter.log[i].client_ip, i - 1,
                                         limiter.log[i].time - period,
                                         limiter.log[i].time)) >= calls

\* a client was refused and, once the window had moved on, let through
\* again, with a request of the other client answered in between
C30_Witness ==
    \E i \in DOMAIN limiter.log : \E j \in DOMAIN limiter.log :
        /\ i < j
        /\ limiter.log[i].status_code = 429
        /\ limiter.log[j].status_code = 200
        /\ limiter.log[j].client_ip = limiter.log[i].client_ip
        /\ \E k \in DOMAIN limiter.log :
              limiter.log[k].client_ip # limiter.log[i].client_ip

====
